---- MODULE Spec2Model ----
(***************************************************************************)
(* Model of the inference-session client of ocmt (src/lib/opencode-cli.ts):*)
(* runOpencodePrompt, its close handle, processEventStream with its        *)
(* reconnection fallback, and the callers that close the session.          *)
(***************************************************************************)
EXTENDS Integers, Sequences, FiniteSets, TLC

\* ------------------------------------------------------------------ bounds
MaxEvents == 4       \* events the feed delivers to one consumer
MaxParts == 3        \* message.part.updated events of the active session
MaxPerms == 2        \* permission.updated events of the active session
MaxCloseCalls == 2   \* close() calls made by the holder of the handle
MaxTicks == 1        \* clock advances, each past OPERATION_TIMEOUT_MS

\* --------------------------------------------------------------- constants
OPERATION_TIMEOUT_MS == 5 * 60 * 1000

SID == "ses_1"        \* session.data.id of the session this call created
OtherSID == "ses_2"   \* a session multiplexed on the same feed

\* parseModelString(DEFAULT_COMMIT_MODEL) and its formatModelID
CommitModel == [providerID |-> "opencode", modelID |-> "gpt-5-nano"]
formatModelID(model) == model.providerID \o "/" \o model.modelID
ModelID == formatModelID(CommitModel)

Absent == "absent"    \* a key that is not in the object
Undefined == -1       \* time.completed === undefined
NoError == "none"     \* error: null

\* ------------------------------------------------------------------- text
\* A string is a sequence of characters; " " is the whitespace character.
Fix == <<"F", " ">>
Bug == <<"b">>
Blank == <<" ">>
Texts == {Fix, Bug, Blank}

RECURSIVE trimStart(_)
trimStart(s) ==
    IF s = <<>> THEN s
    ELSE IF Head(s) = " " THEN trimStart(Tail(s)) ELSE s

RECURSIVE trimEnd(_)
trimEnd(s) ==
    IF s = <<>> THEN s
    ELSE IF s[Len(s)] = " " THEN trimEnd(SubSeq(s, 1, Len(s) - 1)) ELSE s

trim(s) == trimEnd(trimStart(s))

RECURSIVE join(_)
join(texts) ==
    IF texts = <<>> THEN <<>> ELSE Head(texts) \o join(Tail(texts))

\* --------------------------------------------------------------- messages
NullMsg ==
    [present |-> FALSE, sessionID |-> Absent, id |-> Absent,
     role |-> Absent, time |-> [completed |-> Undefined]]

Message(sid, id, role, completed) ==
    [present |-> TRUE, sessionID |-> sid, id |-> id, role |-> role,
     time |-> [completed |-> completed]]

NoPart ==
    [present |-> FALSE, sessionID |-> Absent, messageID |-> Absent,
     id |-> Absent, type |-> Absent, text |-> <<>>]

Part(sid, messageID, id, type, text) ==
    [present |-> TRUE, sessionID |-> sid, messageID |-> messageID, id |-> id,
     type |-> type, text |-> text]

NoErrorData == [present |-> FALSE, hasData |-> FALSE, message |-> "", name |-> ""]

\* ----------------------------------------------------------------- events
Event(type, sid, info, part, error, permissionID) ==
    [type |-> type,
     properties |-> [sessionID |-> sid, info |-> info, part |-> part,
                     error |-> error, id |-> permissionID]]

PartIds == {"a", "b"}
\* The message each part of the session belongs to: part.messageID.
PartMessage == [a |-> "msg_1", b |-> "msg_u"]
PermIds == {"per_1"}

OwnParts ==
    {Part(SID, PartMessage[i], i, "text", tx) : i \in PartIds, tx \in Texts}
    \cup {Part(SID, PartMessage[i], i, "reasoning", Bug) : i \in PartIds}

OwnMessages ==
    {Message(SID, "msg_u", "user", Undefined)}
    \cup {Message(SID, i, "assistant", c) : i \in {"msg_1", "msg_2"}, c \in {Undefined, 1}}

ErrorDatas ==
    {NoErrorData,
     [present |-> TRUE, hasData |-> TRUE, message |-> "quota exceeded", name |-> "APIError"],
     [present |-> TRUE, hasData |-> TRUE, message |-> "", name |-> "APIError"],
     [present |-> TRUE, hasData |-> FALSE, message |-> "", name |-> "ProviderAuthError"]}

PartEvents(parts) ==
    {Event("message.part.updated", Absent, NullMsg, q, NoErrorData, Absent) : q \in parts}

MessageEvents(msgs) ==
    {Event("message.updated", Absent, m, NoPart, NoErrorData, Absent) : m \in msgs}

OwnEvents ==
    PartEvents(OwnParts) \cup MessageEvents(OwnMessages)
    \cup {Event("session.error", SID, NullMsg, NoPart, e, Absent) : e \in ErrorDatas}
    \cup {Event("session.idle", SID, NullMsg, NoPart, NoErrorData, Absent)}
    \cup {Event("permission.updated", SID, NullMsg, NoPart, NoErrorData, i) : i \in PermIds}

OtherEvents ==
    PartEvents({Part(OtherSID, "msg_1", "a", "text", Bug)})
    \cup MessageEvents({Message(OtherSID, "msg_1", "assistant", 1)})
    \cup {Event("session.error", OtherSID, NullMsg, NoPart, ErrorDatas_e, Absent) :
              ErrorDatas_e \in {NoErrorData}}
    \cup {Event("session.idle", OtherSID, NullMsg, NoPart, NoErrorData, Absent)}
    \cup {Event("permission.updated", OtherSID, NullMsg, NoPart, NoErrorData, "per_1")}

Events == OwnEvents \cup OtherEvents

\* Events that carry the id of the session in properties.sessionID and are
\* not what the loop expects: a type without a case in the switch, and
\* message.updated and message.part.updated without their info and part.
UnknownEvents == {Event("todo.updated", SID, NullMsg, NoPart, NoErrorData, Absent)}
MalformedEvents ==
    {Event(type, SID, NullMsg, NoPart, NoErrorData, Absent) :
         type \in {"message.updated", "message.part.updated"}}

\* The session an event was emitted for: the field its type carries it in.
Owner(event) ==
    CASE event.type = "message.updated" -> event.properties.info.sessionID
      [] event.type = "message.part.updated" -> event.properties.part.sessionID
      [] OTHER -> event.properties.sessionID

\* ----------------------------------------------------------- pure helpers
isEventForSession(event, sessionID) ==
    LET props == event.properties IN
    \/ (props.sessionID # Absent /\ props.sessionID = sessionID)
    \/ (props.info.present /\ props.info.sessionID # Absent
            /\ props.info.sessionID = sessionID)
    \/ (props.part.present /\ props.part.sessionID # Absent
            /\ props.part.sessionID = sessionID)

isAssistantMessageComplete(message) == message.time.completed # Undefined

textsOf(parts) == [i \in 1..Len(parts) |-> parts[i].text]

extractTextOfAllParts(parts) == trim(join(textsOf(parts)))

extractTextFromParts(parts) ==
    trim(join(textsOf(SelectSeq(parts, LAMBDA q : q.type = "text"))))

mapSetAppends(parts, part) == Append(parts, part)

\* collectedParts.set(part.id, part) on a Map, which iterates in the order
\* in which keys were first inserted.
mapSet(parts, part) ==
    IF \E i \in 1..Len(parts) : parts[i].id = part.id
    THEN [i \in 1..Len(parts) |-> IF parts[i].id = part.id THEN part ELSE parts[i]]
    ELSE Append(parts, part)

\* -------------------------------------------------- processEventStream
NoResult == [assistantMessage |-> NullMsg, parts |-> <<>>, error |-> NoError]

\* The locals of one processEventStream call, the calls it has made to the
\* backend, and how it ended.
\* permission: the request being handled, what settled the prompt, and the
\* decision.
\* idleIgnored: the loop is back at the await of the next event after a
\* session.idle of the session that ended nothing.
NoPermission == [id |-> Absent, answer |-> "none", response |-> "none"]

\* spinner: the spinner and spinnerMessage arguments of runOpencodePrompt,
\* and whether the spinner is running.
NoSpinner == [supplied |-> FALSE, message |-> Absent, running |-> FALSE]
Spinners ==
    {NoSpinner}
    \cup {[supplied |-> TRUE, message |-> m, running |-> TRUE] :
              m \in {Absent, "", "Generating"}}

NewConsumer ==
    [status |-> "idle",
     permission |-> NoPermission,
     collectedParts |-> <<>>,
     assistantMessage |-> NullMsg,
     sessionError |-> NoError,
     reconnectAttempted |-> FALSE,
     startTime |-> 0,
     result |-> NoResult,
     thrown |-> NoError,
     subscribes |-> 0,
     gets |-> 0,
     historyQueries |-> 0,
     aborts |-> 0,
     permissionReplies |-> <<>>,
     warnings |-> <<>>,
     idleIgnored |-> FALSE,
     spinner |-> NoSpinner]

returnResult(st, message, parts, error) ==
    [st EXCEPT !.status = "returned", !.idleIgnored = FALSE,
               !.result = [assistantMessage |-> message, parts |-> parts,
                           error |-> error]]

throwError(st, message) ==
    [st EXCEPT !.status = "threw", !.thrown = message, !.idleIgnored = FALSE]

\* The three returns that follow the loop and its catch block.
afterLoop(st) ==
    IF st.sessionError # NoError
    THEN returnResult(st, st.assistantMessage, st.collectedParts, st.sessionError)
    ELSE IF st.assistantMessage.present
    THEN returnResult(st, st.assistantMessage, st.collectedParts, NoError)
    ELSE returnResult(st, NullMsg, <<>>, "Event stream ended without completing")

\* connectToEventStream, then the start of the loop.
SubscribeResults == {"stream", "nostream", "throws"}

connectRetrying(st, sub, now) ==
    LET s1 == [st EXCEPT !.startTime = now, !.subscribes = @ + 1] IN
    IF sub = "stream" THEN [s1 EXCEPT !.status = "iterating"]
    ELSE IF sub = "nostream"
    THEN [s1 EXCEPT !.status = "iterating", !.subscribes = @ + 1]
    ELSE throwError(s1, "Failed to connect to event stream")

connectFallingBack(st, sub, now) ==
    LET s1 == [st EXCEPT !.startTime = now, !.subscribes = @ + 1] IN
    IF sub = "stream" THEN [s1 EXCEPT !.status = "iterating"]
    ELSE throwError([s1 EXCEPT !.reconnectAttempted = TRUE, !.aborts = @ + 1],
                    "Failed to connect to event stream")

connect(st, sub, now) ==
    LET s1 == [st EXCEPT !.startTime = now, !.subscribes = @ + 1] IN
    IF sub = "stream"
    THEN [s1 EXCEPT !.status = "iterating"]
    ELSE throwError(s1, "Failed to connect to event stream")

\* What the user does with the permission prompt, and the decision the
\* race against the PERMISSION_PROMPT_TIMEOUT_MS timer yields.
Answers == {"once", "always", "reject", "cancel", "timeout", "throws"}

promptUserForPermission(answer) ==
    IF answer = "cancel" THEN "reject" ELSE answer

permissionResponseWithoutTimer(answer) ==
    IF answer = "throws" THEN "reject"
    ELSE IF answer = "timeout" THEN "once"
    ELSE promptUserForPermission(answer)

permissionResponse(answer) ==
    IF answer \in {"timeout", "throws"} THEN "reject"
    ELSE promptUserForPermission(answer)

sessionErrorMessage(errorData) ==
    IF errorData.present
    THEN LET errorMessage ==
                 IF errorData.hasData
                 THEN (IF errorData.message # "" THEN errorData.message
                       ELSE errorData.name)
                 ELSE errorData.name
         IN IF errorMessage # "" THEN errorMessage ELSE "Session error occurred"
    ELSE "Unknown session error"

\* spinnerMessage ?? ""
spinnerMessageOrEmpty(sp) == IF sp.message = Absent THEN "" ELSE sp.message

\* if (spinner) spinner.stop("Permission required")
spinnerStop(sp) == IF sp.supplied THEN [sp EXCEPT !.running = FALSE] ELSE sp

\* if (spinner && spinnerMessage) spinner.start(spinnerMessage)
spinnerStart(sp) ==
    IF sp.supplied /\ spinnerMessageOrEmpty(sp) # ""
    THEN [sp EXCEPT !.running = TRUE] ELSE sp

\* case "permission.updated": the loop awaits the race of the prompt and
\* the timer.
onPermissionUpdatedNotAwaited(st, event) ==
    [st EXCEPT !.permission = [NoPermission EXCEPT !.id = event.properties.id]]

onPermissionUpdated(st, event) ==
    [st EXCEPT !.status = "prompting",
               !.spinner = spinnerStop(@),
               !.permission = [NoPermission EXCEPT !.id = event.properties.id]]

onMessageUpdatedWaitingForIdle(st, info) ==
    IF info.role = "assistant" THEN [st EXCEPT !.assistantMessage = info] ELSE st

\* case "message.updated"
onMessageUpdated(st, info) ==
    IF info.role = "assistant"
    THEN IF isAssistantMessageComplete(info)
         THEN returnResult([st EXCEPT !.assistantMessage = info],
                           info, st.collectedParts, NoError)
         ELSE [st EXCEPT !.assistantMessage = info]
    ELSE st

onSessionErrorIgnored(st, errorData) ==
    [st EXCEPT !.sessionError = sessionErrorMessage(errorData)]

\* case "session.error"
onSessionError(st, errorData) ==
    LET err == sessionErrorMessage(errorData) IN
    returnResult([st EXCEPT !.sessionError = err],
                 st.assistantMessage, st.collectedParts, err)

onSessionIdleEndsConsumption(st) ==
    IF st.assistantMessage.present
    THEN returnResult(st, st.assistantMessage, st.collectedParts, NoError)
    ELSE afterLoop(st)

\* case "session.idle"
onSessionIdle(st) ==
    IF st.assistantMessage.present
       /\ isAssistantMessageComplete(st.assistantMessage)
    THEN returnResult(st, st.assistantMessage, st.collectedParts, NoError)
    ELSE [st EXCEPT !.idleIgnored = TRUE]

\* One iteration of the for-await loop on the event the feed delivered.
processEvent(st, event, now) ==
    IF now - st.startTime > OPERATION_TIMEOUT_MS
    THEN afterLoop([st EXCEPT !.sessionError = "Operation timed out"])
    ELSE IF ~isEventForSession(event, SID) THEN st
    ELSE LET s0 == [st EXCEPT !.idleIgnored = FALSE] IN
         CASE event.type = "permission.updated" -> onPermissionUpdated(s0, event)
           [] event.type = "message.updated" ->
                onMessageUpdated(s0, event.properties.info)
           [] event.type = "message.part.updated" ->
                [s0 EXCEPT !.collectedParts = mapSet(@, event.properties.part)]
           [] event.type = "session.error" ->
                onSessionError(s0, event.properties.error)
           [] event.type = "session.idle" -> onSessionIdle(s0)
           [] OTHER -> s0

\* Promise.race settles: the user has answered, cancelled, the prompt has
\* thrown, or the timer has fired.
raceSettles(st, answer) ==
    [st EXCEPT !.status = "replying",
               !.permission = [@ EXCEPT !.answer = answer,
                                        !.response = permissionResponse(answer)]]

postReplyRaising(st, replyOk) ==
    LET posted == [st EXCEPT !.permission = NoPermission,
                             !.permissionReplies =
                                 Append(@, [id |-> st.permission.id,
                                            response |-> st.permission.response])]
    IN IF replyOk THEN [posted EXCEPT !.status = "iterating"]
       ELSE throwError(posted, "Failed to send permission response")

\* postSessionIdPermissionsPermissionId has settled: a reply that fails to
\* post is logged with p.log.warn, the permission goes out of scope and the
\* loop goes on to the next event.
postReply(st, replyOk) ==
    [st EXCEPT !.status = "iterating",
               !.spinner = spinnerStart(@),
               !.permission = NoPermission,
               !.permissionReplies =
                   Append(@, [id |-> st.permission.id,
                              response |-> st.permission.response]),
               !.warnings =
                   IF replyOk THEN @
                   ELSE Append(@, "Failed to send permission response")]

\* The stored messages session.messages can answer with.
Stored(info, parts) == [info |-> info, parts |-> parts]

StoredUser ==
    Stored(Message(SID, "msg_u", "user", Undefined),
           <<Part(SID, "msg_u", "u", "text", Bug)>>)

StoredParts ==
    {<<>>,
     <<Part(SID, "msg_1", "a", "text", Blank)>>,
     <<Part(SID, "msg_1", "a", "reasoning", Bug),
       Part(SID, "msg_1", "c", "text", Fix),
       Part(SID, "msg_1", "d", "text", Bug)>>}

Histories ==
    {<<>>, <<StoredUser>>,
     <<StoredUser, Stored(Message(SID, "msg_1", "assistant", Undefined),
                          <<Part(SID, "msg_1", "a", "text", Fix)>>)>>,
     <<Stored(Message(SID, "msg_1", "assistant", 1),
              <<Part(SID, "msg_1", "a", "text", Fix)>>), StoredUser>>}
    \cup {<<StoredUser, Stored(Message(SID, "msg_1", "assistant", 1), ps)>> :
              ps \in StoredParts}

GetResults == {"data", "nodata", "throws"}
MessagesResults ==
    {[kind |-> k, data |-> <<>>] : k \in {"throws", "nodata"}}
    \cup {[kind |-> "data", data |-> h] : h \in Histories}

reconnectFailedWithoutAbort(st) ==
    throwError(st, "Event stream disconnected and reconnect failed")

\* The best-effort abort and the throw of the inner catch block.
reconnectFailed(st) ==
    throwError([st EXCEPT !.aborts = @ + 1],
               "Event stream disconnected and reconnect failed")

reconnectKeepsCollected(st, sub, get, messages) ==
    IF sub # "stream" \/ get = "throws" \/ (get = "data" /\ messages.kind = "throws")
    THEN reconnectFailed([st EXCEPT !.reconnectAttempted = TRUE])
    ELSE IF get = "data" /\ messages.kind = "data" /\ Len(messages.data) > 0
            /\ messages.data[Len(messages.data)].info.role = "assistant"
            /\ isAssistantMessageComplete(messages.data[Len(messages.data)].info)
    THEN returnResult([st EXCEPT !.reconnectAttempted = TRUE],
                      messages.data[Len(messages.data)].info,
                      st.collectedParts, NoError)
    ELSE afterLoop([st EXCEPT !.reconnectAttempted = TRUE])

\* The catch block of the loop: the feed threw while it was iterated.
reconnect(st, sub, get, messages) ==
    IF st.reconnectAttempted THEN afterLoop(st)
    ELSE
    LET s1 == [st EXCEPT !.reconnectAttempted = TRUE, !.subscribes = @ + 1] IN
    IF sub # "stream" THEN reconnectFailed(s1)
    ELSE
    LET s2 == [s1 EXCEPT !.gets = @ + 1] IN
    IF get = "throws" THEN reconnectFailed(s2)
    ELSE IF get = "nodata" THEN afterLoop(s2)
    ELSE
    LET s3 == [s2 EXCEPT !.historyQueries = @ + 1] IN
    IF messages.kind = "throws" THEN reconnectFailed(s3)
    ELSE IF messages.kind = "data" /\ Len(messages.data) > 0
    THEN LET lastMessage == messages.data[Len(messages.data)] IN
         IF lastMessage.info.role = "assistant"
            /\ isAssistantMessageComplete(lastMessage.info)
         THEN returnResult(s3, lastMessage.info, lastMessage.parts, NoError)
         ELSE afterLoop(s3)
    ELSE afterLoop(s3)

\* --------------------------------------------------- runOpencodePrompt
\* closed and the number of session.delete requests sent for the session.
NewHandle == [closed |-> FALSE, deletes |-> 0]

closeWithoutFlag(h) ==
    IF h.closed THEN h
    ELSE [closed |-> FALSE, deletes |-> h.deletes + 1]

\* close(): the guard on closed, the flag, then the delete request.
close(h) ==
    IF h.closed THEN h
    ELSE [closed |-> TRUE, deletes |-> h.deletes + 1]

\* The try/catch around the delete: how a close() call settles.
closeSettles(deleteOk) == "resolved"

NoOutcome ==
    [kind |-> "none", message |-> <<>>, messageID |-> Absent,
     error |-> [wrapped |-> FALSE, modelID |-> Absent, cause |-> NoError]]

returned(message, messageID) ==
    [NoOutcome EXCEPT !.kind = "returned", !.message = message,
                      !.messageID = messageID]

raisedWithoutCause(wrapped, cause) ==
    [NoOutcome EXCEPT !.kind = "raised",
                      !.error = [wrapped |-> wrapped,
                                 modelID |-> IF wrapped THEN ModelID ELSE Absent,
                                 cause |-> "Model request failed"]]

raised(wrapped, cause) ==
    [NoOutcome EXCEPT !.kind = "raised",
                      !.error = [wrapped |-> wrapped,
                                 modelID |-> IF wrapped THEN ModelID ELSE Absent,
                                 cause |-> cause]]

catchBlockWithoutClose(h, cause) ==
    [handle |-> h, outcome |-> raised(TRUE, cause)]

\* catch (err) { await close(); throw new Error(`Model request failed ...`) }
catchBlock(h, cause) == [handle |-> close(h), outcome |-> raised(TRUE, cause)]

completeReturningEmpty(st, h) ==
    IF st.status = "threw" THEN catchBlock(h, st.thrown)
    ELSE IF st.result.error # NoError
    THEN catchBlock(close(h), st.result.error)
    ELSE IF ~st.result.assistantMessage.present
    THEN catchBlock(close(h), "Failed to get AI response")
    ELSE [handle |-> h,
          outcome |-> returned(extractTextFromParts(st.result.parts),
                               st.result.assistantMessage.id)]

\* The statements of the try block that follow processEventStream.
complete(st, h) ==
    IF st.status = "threw" THEN catchBlock(h, st.thrown)
    ELSE IF st.result.error # NoError
    THEN catchBlock(close(h), st.result.error)
    ELSE IF ~st.result.assistantMessage.present
    THEN catchBlock(close(h), "Failed to get AI response")
    ELSE LET message == extractTextFromParts(st.result.parts) IN
         IF message = <<>>
         THEN catchBlock(close(h), "No response generated")
         ELSE [handle |-> h,
               outcome |-> returned(message, st.result.assistantMessage.id)]

\* ---------------------------------------------------------- getClient data
MaxCalls == 2     \* getClient calls made by one process

NoUrl == <<>>
Url == <<"u">>
EnvValues == {NoUrl, Blank, Url}
Environments == [OPENCODE_SERVER_URL : EnvValues, OPENCODE_URL : EnvValues]
NoEnvironment == [OPENCODE_SERVER_URL |-> NoUrl, OPENCODE_URL |-> NoUrl]

\* process.env.OPENCODE_SERVER_URL || process.env.OPENCODE_URL
envBaseUrl(e) ==
    IF e.OPENCODE_SERVER_URL # NoUrl THEN e.OPENCODE_SERVER_URL ELSE e.OPENCODE_URL

\* if (envBaseUrl?.trim())
envEndpointSet(e) == trim(envBaseUrl(e)) # <<>>

\* A client handle: of an endpoint, or of the server it was spawned with.
NoClient == [kind |-> "null", server |-> 0]
EnvClient == [kind |-> "env", server |-> 0]
DefaultClient == [kind |-> "default", server |-> 0]
SpawnedClient(n) == [kind |-> "spawned", server |-> n]

Step(name, ok) == [step |-> name, ok |-> ok]

\* One getClient call: where it is suspended, what it has done so far, the
\* server of its local `opencode`, and the client it returned.
NewCall == [pc |-> "idle", steps |-> <<>>, opencode |-> 0, result |-> NoClient]

did(call, name, ok) == [call EXCEPT !.steps = @ \o <<Step(name, ok)>>]

\* if (clientInstance) return clientInstance; otherwise up to the first await.
getClientStart(call, instance, e) ==
    IF instance # NoClient
    THEN [call EXCEPT !.pc = "returned", !.result = instance]
    ELSE IF envEndpointSet(e)
    THEN [call EXCEPT !.pc = "envProbe"]
    ELSE [call EXCEPT !.pc = "defaultProbe"]

probeAnswered(call, name, client) ==
    [did(call, name, TRUE) EXCEPT !.pc = "returned", !.result = client]

\* catch { p.log.warn(...) }, then the probe of the default endpoint
envProbeFailedThenSpawns(call) ==
    [did(did(call, "envProbe", FALSE), "warn", TRUE) EXCEPT !.pc = "isOpencodeInstalled"]

envProbeFailed(call) ==
    [did(did(call, "envProbe", FALSE), "warn", TRUE) EXCEPT !.pc = "defaultProbe"]

\* catch { }, then await isOpencodeInstalled()
defaultProbeFailed(call) ==
    [did(call, "defaultProbe", FALSE) EXCEPT !.pc = "isOpencodeInstalled"]

\* serverInstance?.close()
closeServer(count, server) ==
    IF server = 0 THEN count ELSE [count EXCEPT ![server] = @ + 1]

\* The 'exit' listeners, run in the order of their registration.
RECURSIVE emitExit(_, _, _)
emitExit(count, server, n) ==
    IF n = 0 THEN count ELSE emitExit(closeServer(count, server), server, n - 1)

NoProcessEnd == [state |-> "running", exitCode |-> Undefined, path |-> "none"]
Signals == {"SIGINT", "SIGTERM"}

\* ------------------------------------------------------ commitCommand data
NoMessage == <<>>
WordChars == {"m", "n", "f", "x"}
Intents == {<<"f">>, <<"x">>}
GeneratedMessages == {<<"m">>, <<"f", ":", " ", "m">>}
EditedMessages == {<<"n">>}

CommitOptions ==
    [message : {NoMessage, <<"m">>}, all : BOOLEAN, yes : BOOLEAN,
     accept : BOOLEAN, branch : BOOLEAN, skipBranch : BOOLEAN]
NoOptions ==
    [message |-> NoMessage, all |-> FALSE, yes |-> FALSE, accept |-> FALSE,
     branch |-> FALSE, skipBranch |-> FALSE]

GitStatuses == [staged : BOOLEAN, unstaged : BOOLEAN]
NoStatus == [staged |-> FALSE, unstaged |-> FALSE]

\* status.staged.length > 0 || status.unstaged.length > 0 || ...
hasChanges(s) == s.staged \/ s.unstaged

\* git add -A, then getStatus()
stageAll(s) == [staged |-> hasChanges(s), unstaged |-> FALSE]

\* The length of the match of /^(\w+!?)(\([^)]*\))?:\s*/, or 0.
RECURSIVE wordsUpTo(_, _)
wordsUpTo(message, i) ==
    IF i > Len(message) \/ message[i] \notin WordChars
    THEN i - 1
    ELSE wordsUpTo(message, i + 1)

RECURSIVE spacesUpTo(_, _)
spacesUpTo(message, i) ==
    IF i > Len(message) \/ message[i] # " "
    THEN i - 1
    ELSE spacesUpTo(message, i + 1)

intentMatch(message) ==
    LET w == wordsUpTo(message, 1) IN
    IF w >= 1 /\ w < Len(message) /\ message[w + 1] = ":"
    THEN spacesUpTo(message, w + 2)
    ELSE 0

replaceCommitIntent(message, newIntent) ==
    newIntent \o <<":", " ">>
        \o SubSeq(message, intentMatch(message) + 1, Len(message))

NoBranchFlow == [result |-> "none", why |-> "none"]
continue(why) == [result |-> "continue", why |-> why]
abort(why) == [result |-> "abort", why |-> why]
BranchConfigs ==
    [forceNewBranchOnDefault : BOOLEAN, autoCreateBranchOnDefault : BOOLEAN,
     autoCreateBranchOnNonDefault : BOOLEAN]
Generations == {"ok", "throws", "exit"}
\* executionMode of utils/ui.ts, and what the user does at a p.confirm prompt
ExecutionModes == {"interactive", "auto-accept", "confirm-each"}
ConfirmResponses == {"cancel", "yes", "no"}

\* confirmAction(message, defaultValue): the default unless the mode is
\* interactive; if (p.isCancel(result)) return false
confirmAction(mode, response, defaultValue) ==
    IF mode \in {"auto-accept", "confirm-each"} THEN defaultValue
    ELSE IF response = "cancel" THEN "false"
    ELSE IF response = "yes" THEN "true" ELSE "false"

\* confirmWithMode(options)
confirmWithMode(mode, response) ==
    IF mode = "auto-accept" THEN "accept"
    ELSE IF mode = "confirm-each"
    THEN IF response = "yes" THEN "accept" ELSE "cancel"
    ELSE "interactive"

\* ------------------------------------------------------- CLI runner data
MaxFiles == 3     \* attachments of one runOpencodeOnce call

Digits == <<"1", "2", "3", "4", "5", "6", "7", "8", "9">>
Txt == <<".", "t", "x", "t">>
FileNames ==
    {<<>>, Blank, <<"a">> \o Txt, <<"a", "-", "3">> \o Txt,
     <<"d", "/", "a">> \o Txt, <<"a", "#">>, <<"a">>}

RECURSIVE FileLists(_)
FileLists(n) ==
    IF n = 0 THEN {<<>>}
    ELSE FileLists(n - 1)
             \cup {Append(l, f) : l \in {m \in FileLists(n - 1) : Len(m) = n - 1},
                                  f \in FileNames}

\* [a-zA-Z0-9._-], as far as the characters of the model go
SafeChars ==
    {"a", "c", "d", "e", "h", "m", "n", "t", "x", ".", "-", "_"}
        \cup {Digits[i] : i \in 1..Len(Digits)}

\* The last index of character c in s, or 0.
RECURSIVE lastIndexOf(_, _)
lastIndexOf(s, c) ==
    IF s = <<>> THEN 0
    ELSE IF s[Len(s)] = c THEN Len(s)
    ELSE lastIndexOf(SubSeq(s, 1, Len(s) - 1), c)

RECURSIVE stripSlashes(_)
stripSlashes(s) ==
    IF s # <<>> /\ s[Len(s)] = "/" THEN stripSlashes(SubSeq(s, 1, Len(s) - 1)) ELSE s

\* path.basename(name)
basename(name) ==
    LET s == stripSlashes(name) IN SubSeq(s, lastIndexOf(s, "/") + 1, Len(s))

\* `attachment-${index + 1}.txt`, for the i-th file counted from 1
fallbackName(i) ==
    <<"a", "t", "t", "a", "c", "h", "m", "e", "n", "t", "-", Digits[i]>> \o Txt

sanitizeFilename(name, fallback) ==
    LET base == IF trim(basename(name)) # <<>> THEN trim(basename(name)) ELSE fallback
        sanitized == [k \in 1..Len(base) |->
                          IF base[k] \in SafeChars THEN base[k] ELSE "-"]
    IN IF sanitized # <<>> THEN sanitized ELSE fallback

\* name.replace(/\.[^.]+$/, "")
withoutExtension(name) ==
    LET dot == lastIndexOf(name, ".") IN
    IF dot > 0 /\ dot < Len(name) THEN SubSeq(name, 1, dot - 1) ELSE name

\* name.includes(".") ? name.slice(name.lastIndexOf(".")) : ""
extension(name) ==
    LET dot == lastIndexOf(name, ".") IN
    IF dot > 0 THEN SubSeq(name, dot, Len(name)) ELSE <<>>

\* The name of the i-th file (from 1) when `used` holds the earlier names.
tempName(file, i, used) ==
    LET name == sanitizeFilename(file, fallbackName(i)) IN
    IF name \in used
    THEN withoutExtension(name) \o <<"-", Digits[i]>> \o extension(name)
    ELSE name

Pending == [state |-> "pending", why |-> "none", exitCode |-> Undefined]
resolved(code) == [state |-> "resolved", why |-> "close", exitCode |-> code]
rejected(why) == [state |-> "rejected", why |-> why, exitCode |-> Undefined]
ExitCodes == {0, 1, Undefined}

\* ---------------------------------------------------------- getConfig data
MaxGetConfigs == 2    \* getConfig calls of one process

Sections == {"commit", "changelog"}
FieldsOf(s) == IF s = "commit" THEN {"autoPush", "model"} ELSE {"autoSave", "model"}
Missing == "missing"   \* a key that the object does not have

\* The values a config.json may give a field.
FileValues(f) == IF f = "model" THEN {"x/y"} ELSE {"true", "null"}

NoFields(s) == [f \in FieldsOf(s) |-> Missing]
SectionObjects(s) ==
    {o \in [FieldsOf(s) -> {Missing, "true", "null", "x/y"}] :
         \A f \in FieldsOf(s) : o[f] \in {Missing} \cup FileValues(f)}

\* A section of a parsed file: not there, or an object.
NoSection(s) == [present |-> FALSE, fields |-> NoFields(s)]
FileSections(s) ==
    {NoSection(s)} \cup {[present |-> TRUE, fields |-> o] : o \in SectionObjects(s)}

EmptyObject == [s \in Sections |-> NoSection(s)]
Parsed ==
    {c \in [Sections -> UNION {FileSections(s) : s \in Sections}] :
         \A s \in Sections : c[s] \in FileSections(s)}

\* A config.json: not there, not JSON, or a JSON object.
MissingFile == [kind |-> "missing", content |-> EmptyObject]
UnparsableFile == [kind |-> "unparsable", content |-> EmptyObject]
ConfigFiles ==
    {MissingFile, UnparsableFile} \cup {[kind |-> "parsed", content |-> c] : c \in Parsed}

\* DEFAULT_JSON_CONFIG, section by section
BuiltInDefaults ==
    [s \in Sections |->
         IF s = "commit"
         THEN [f \in FieldsOf(s) |->
                   IF f = "autoPush" THEN "false" ELSE "opencode/gpt-5-nano"]
         ELSE [f \in FieldsOf(s) |->
                   IF f = "autoSave" THEN "false" ELSE "opencode/claude-sonnet-4-5"]]

\* JSON.stringify(DEFAULT_JSON_CONFIG), read back
writtenDefaults(defaults) ==
    [kind |-> "parsed",
     content |-> [s \in Sections |-> [present |-> TRUE, fields |-> defaults[s]]]]

\* A section of a config in memory is the object of the defaults themselves
\* (after { ...DEFAULT_JSON_CONFIG }) or an object of its own.
shared(s) == [alias |-> TRUE, fields |-> NoFields(s)]
own(fields) == [alias |-> FALSE, fields |-> fields]
NoConfig == [s \in Sections |-> own(NoFields(s))]

\* { ...DEFAULT_JSON_CONFIG }
copyOfDefaults == [s \in Sections |-> shared(s)]

valueOf(section, s, defaults) == IF section.alias THEN defaults[s] ELSE section.fields

\* { ...baseValue, ...overrideValue }
spread(baseValue, overrideValue) ==
    [f \in DOMAIN baseValue |->
         IF overrideValue[f] # Missing THEN overrideValue[f] ELSE baseValue[f]]

mergeConfigsReplacingSections(base, override, defaults) ==
    [config |-> [s \in Sections |->
                     IF override[s].present
                     THEN own(override[s].fields)
                     ELSE base[s]],
     defaults |-> defaults]

\* mergeConfigs, with the defaults as they are after the call
mergeConfigs(base, override, defaults) ==
    [config |-> [s \in Sections |->
                     IF override[s].present
                     THEN own(spread(valueOf(base[s], s, defaults), override[s].fields))
                     ELSE base[s]],
     defaults |-> defaults]

\* The merge of one layer inside its try block: a file that is not JSON
\* raises in JSON.parse and leaves the config as it was.
mergeLayer(base, file, defaults) ==
    IF file.kind = "parsed"
    THEN mergeConfigs(base, file.content, defaults)
    ELSE [config |-> base, defaults |-> defaults]

\* ------------------------------------------------------ releaseCommand data
Flags == {"undefined", "true", "false"}
ReleaseOptions ==
    [from : BOOLEAN, version : BOOLEAN, yes : BOOLEAN, tag : Flags, push : Flags]
NoReleaseOptions ==
    [from |-> FALSE, version |-> FALSE, yes |-> FALSE, tag |-> "undefined",
     push |-> "undefined"]

GitOp(op, ok) == [op |-> op, ok |-> ok]

\* After the changelog commit: options.tag ?? true, asked about unless --yes
\* or --tag
beforeTag(o) ==
    IF ~o.yes /\ o.tag # "true" THEN "confirmTag"
    ELSE IF o.tag # "false" THEN "tag"
    ELSE "complete"

\* After the tag: options.push ?? false, asked about unless --yes or --push
beforePush(o) ==
    IF ~o.yes /\ o.push # "true" THEN "confirmPush"
    ELSE IF o.push = "true" THEN "push"
    ELSE "complete"

afterTagIgnoringFailure(o, ok) == beforePush(o)

\* try { await git(`tag ...`); ...push... } catch { "Tag failed" }
afterTag(o, ok) == IF ok THEN beforePush(o) ELSE "complete"

\* ------------------------------------------- maybeDeslopStagedChanges data
DeslopFlowOptions == [yes : BOOLEAN, autoDeslop : BOOLEAN]
NoDeslopOptions == [yes |-> FALSE, autoDeslop |-> FALSE]

\* What the user types at "Deslop staged changes?", after trim and lowercase.
Responses == {"cancel", "", "y", "n", "instructions"}

shouldDeslop(o, response) ==
    IF o.yes THEN o.autoDeslop
    ELSE IF response \in {"", "y", "yes"} THEN (response # "" \/ o.autoDeslop)
    ELSE IF response \in {"n", "no"} THEN FALSE
    ELSE TRUE

NoSnapshot == "null"
Snapshot == "stash"

\* One git restore command: its --source, what it restores, and whether
\* git exited with success.
GitRestore(source, target, ok, during) ==
    [source |-> source, target |-> target, ok |-> ok, during |-> during]

NoRestore == [during |-> "none", at |-> "none"]

\* The command restoreGitSnapshot is about to run.
restoreCommand(at, ok, during) ==
    CASE at = "worktree" -> GitRestore(Snapshot, "--worktree", ok, during)
      [] at = "staged^2" -> GitRestore(Snapshot \o "^2", "--staged", ok, during)
      [] at = "staged" -> GitRestore(Snapshot, "--staged", ok, during)

restoreGitSnapshotWorktreeOnly(at, ok) ==
    CASE at = "worktree" -> IF ok THEN "resolved" ELSE "rejected"
      [] at = "staged^2" -> IF ok THEN "resolved" ELSE "staged"
      [] at = "staged" -> IF ok THEN "resolved" ELSE "rejected"

\* restoreGitSnapshot: where it goes after the command at `at` has ended.
restoreGitSnapshot(at, ok) ==
    CASE at = "worktree" -> IF ok THEN "staged^2" ELSE "rejected"
      [] at = "staged^2" -> IF ok THEN "resolved" ELSE "staged"
      [] at = "staged" -> IF ok THEN "resolved" ELSE "rejected"

restoreError(at) == "git restore " \o at \o " failed"
RestoreErrors == {restoreError(at) : at \in {"worktree", "staged"}}

\* ------------------------------------------------------------------ state
VARIABLES
    pc,             \* where the orchestration call is
    now,            \* Date.now()
    events,         \* number of events the feed has delivered
    parts,          \* number of those that were parts of the session
    firstSeen,      \* ids of the delivered parts of the session, in the
                    \* order in which each was first delivered
    latest,         \* per part id, the last part delivered for it
    feed,           \* "open", "ended", or "threw"
    disconnect,     \* what the backend answered during the reconnection
    consumer,       \* the processEventStream call
    reference,      \* the same call on the feed without other sessions' events
    sessionCreated, \* session.create returned a session
    handle,         \* closed, and the session.delete requests sent
    deleteFailed,   \* a session.delete request failed
    closeRejected,  \* a close() call raised
    closeCalls,     \* close() calls made by the holder of the handle
    inFlight,       \* session.delete requests of the holder not yet settled
    outcome,        \* how runOpencodePrompt ended
    requests,       \* the session.create and promptAsync requests sent
    unseen          \* the backend emitted the complete assistant
                    \* message.updated of the session while the call had no
                    \* subscription

\* The process that holds the client: module state of opencode-cli.ts and
\* what the process object has registered.
VARIABLES
    env,             \* process.env, as far as getClient reads it
    clientInstance,  \* the cached client handle
    serverInstance,  \* the spawned server (0: null)
    calls,           \* the getClient calls of the process
    servers,         \* servers spawned so far by createOpencode
    closes,          \* per spawned server, the close() calls it received
    authenticated,   \* the spawned servers that passed checkAuth
    listeners,       \* how often the exit and signal listeners were registered
    process          \* running, or how the process ended

\* One run of commitCommand.
VARIABLES
    executionMode,  \* the execution mode of the process (utils/ui.ts)
    cancelSeen,     \* a prompt about the commit message was cancelled
    options,        \* the CommitOptions of the run
    cpc,            \* the await at which commitCommand is suspended
    status,         \* the last getStatus() result
    commitMessage,  \* the message proposed for the commit
    branchFlow,     \* what maybeCreateBranchForCommit returned, and why
    gitCommits,     \* the messages git commit was executed with
    ended           \* why commitCommand called process.exit

\* One runOpencodeOnce call.
VARIABLES
    files,          \* options.files, by file name
    rpc,            \* where the call is
    tempDir,        \* "none", "exists" or "removed"
    usedNames,      \* usedNames of writeTempFiles
    paths,          \* the names of the files written into the directory
    timedOut,       \* the timeout fired and killed the child
    run             \* how the promise of the call is settled

\* The JSON configuration: the module constant, the two files and a call.
VARIABLES
    DEFAULT_JSON_CONFIG,  \* the built-in defaults
    globalFile,           \* ~/.oc/config.json
    projectFile,          \* <repo>/.oc/config.json
    inRepo,               \* getRepoRoot() of the last call succeeded
    config,               \* the config of the getConfig call
    gpc,                  \* where the getConfig call is
    getConfigs            \* getConfig calls made

\* One run of releaseCommand.
VARIABLES
    releaseOptions,  \* the ReleaseOptions of the run
    lpc,             \* the await at which releaseCommand is suspended
    gitLog,          \* the commits, the tag and the push executed, in order
    releaseEnded     \* why releaseCommand ended

\* One call of maybeDeslopStagedChanges.
VARIABLES
    deslopOptions,   \* options.yes and config.commit.autoDeslop
    dpc,             \* the await at which the call is suspended
    snapshotRef,     \* the snapshot created by git stash create
    deslopSession,   \* "null", or the session runDeslopEdits returned
    editSessions,    \* runDeslopEdits calls started
    sessionCloses,   \* close() calls made on the session
    restore,         \* the restoreGitSnapshot call in progress
    restores,        \* the git restore commands executed, in order
    caught,          \* the error the catch block was entered with
    shown,           \* the messages shown to the user
    deslopResult     \* what the call returns, or how its promise settles

promptVars ==
    <<pc, now, events, parts, firstSeen, latest, feed, disconnect, consumer, reference,
      sessionCreated, handle, deleteFailed, closeRejected, closeCalls,
      inFlight, outcome, requests, unseen>>

clientVars ==
    <<env, clientInstance, serverInstance, calls, servers, closes,
      authenticated, listeners, process>>

commitVars ==
    <<executionMode, cancelSeen, options, cpc, status, commitMessage, branchFlow, gitCommits, ended>>

runnerVars == <<files, rpc, tempDir, usedNames, paths, timedOut, run>>

configVars ==
    <<DEFAULT_JSON_CONFIG, globalFile, projectFile, inRepo, config, gpc, getConfigs>>

releaseVars == <<releaseOptions, lpc, gitLog, releaseEnded>>

deslopVars ==
    <<deslopOptions, dpc, snapshotRef, deslopSession, editSessions, sessionCloses,
      restore, restores, caught, shown, deslopResult>>

vars ==
    <<promptVars, clientVars, commitVars, runnerVars, configVars, releaseVars,
      deslopVars>>

outsidePrompt ==
    <<clientVars, commitVars, runnerVars, configVars, releaseVars, deslopVars>>
outsideClient ==
    <<promptVars, commitVars, runnerVars, configVars, releaseVars, deslopVars>>
outsideCommit == <<promptVars, runnerVars, configVars, releaseVars, deslopVars>>
outsideRunner ==
    <<promptVars, clientVars, commitVars, configVars, releaseVars, deslopVars>>
outsideConfig ==
    <<promptVars, clientVars, commitVars, runnerVars, releaseVars, deslopVars>>
outsideRelease == <<promptVars, commitVars, runnerVars, configVars, deslopVars>>
outsideDeslop ==
    <<promptVars, clientVars, commitVars, runnerVars, configVars, releaseVars>>

\* commitCommand before its first await.
CommitStart(o, mode) ==
    /\ executionMode = mode
    /\ cancelSeen = FALSE
    /\ options = o
    /\ cpc = "isGitRepo"
    /\ status = NoStatus
    /\ commitMessage = NoMessage
    /\ branchFlow = NoBranchFlow
    /\ gitCommits = <<>>
    /\ ended = "running"

CommitAtRest(o) == CommitStart(o, "interactive")

\* runOpencodeOnce before its first await.
RunnerAtRest(f) ==
    /\ files = f
    /\ rpc = "ensureOpencodeInstalled"
    /\ tempDir = "none"
    /\ usedNames = {}
    /\ paths = <<>>
    /\ timedOut = FALSE
    /\ run = Pending

\* Before the first getConfig call.
ConfigAtRest(g, p) ==
    /\ DEFAULT_JSON_CONFIG = BuiltInDefaults
    /\ globalFile = g
    /\ projectFile = p
    /\ inRepo = FALSE
    /\ config = NoConfig
    /\ gpc = "idle"
    /\ getConfigs = 0

\* releaseCommand before its first await.
ReleaseAtRest(o) ==
    /\ releaseOptions = o
    /\ lpc = "isGitRepo"
    /\ gitLog = <<>>
    /\ releaseEnded = "running"

\* maybeDeslopStagedChanges before its first await.
DeslopAtRest(o) ==
    /\ deslopOptions = o
    /\ dpc = "prompt"
    /\ snapshotRef = NoSnapshot
    /\ deslopSession = "null"
    /\ editSessions = 0
    /\ sessionCloses = 0
    /\ restore = NoRestore
    /\ restores = <<>>
    /\ caught = NoError
    /\ shown = <<>>
    /\ deslopResult = "none"

\* The process before its first getClient call.
ClientAtRest(e) ==
    /\ env = e
    /\ clientInstance = NoClient
    /\ serverInstance = 0
    /\ calls = [c \in 1..MaxCalls |-> NewCall]
    /\ servers = 0
    /\ closes = [n \in 1..MaxCalls |-> 0]
    /\ authenticated = {}
    /\ listeners = 0
    /\ process = NoProcessEnd

NoRequests == [create |-> 0, promptAsync |-> 0]

NoMessages == [kind |-> "none", data |-> <<>>]
NoDisconnect == [sub |-> "none", get |-> "none", messages |-> NoMessages]

\* The answers of the backend during a reconnection, up to the first that
\* ends it.
Disconnects ==
    {[sub |-> s, get |-> "none", messages |-> NoMessages] :
         s \in SubscribeResults \ {"stream"}}
    \cup {[sub |-> "stream", get |-> g, messages |-> NoMessages] :
              g \in GetResults \ {"data"}}
    \cup {[sub |-> "stream", get |-> "data", messages |-> m] :
              m \in MessagesResults}

\* runOpencodePrompt before its first await, called with the spinner sp.
PromptStart(sp) ==
    /\ pc = "start"
    /\ now = 0
    /\ events = 0
    /\ parts = 0
    /\ firstSeen = <<>>
    /\ latest = [i \in PartIds |-> NoPart]
    /\ feed = "open"
    /\ disconnect = NoDisconnect
    /\ consumer = [NewConsumer EXCEPT !.spinner = sp]
    /\ reference = [NewConsumer EXCEPT !.spinner = sp]
    /\ sessionCreated = FALSE
    /\ handle = NewHandle
    /\ deleteFailed = FALSE
    /\ closeRejected = FALSE
    /\ closeCalls = 0
    /\ inFlight = 0
    /\ outcome = NoOutcome
    /\ requests = NoRequests
    /\ unseen = FALSE

PromptAtRest == PromptStart(NoSpinner)

Init ==
    /\ PromptAtRest
    /\ ClientAtRest(NoEnvironment)
    /\ CommitAtRest(NoOptions)
    /\ RunnerAtRest(<<>>)
    /\ ConfigAtRest(MissingFile, MissingFile)
    /\ ReleaseAtRest(NoReleaseOptions)
    /\ DeslopAtRest(NoDeslopOptions)

streamVars == <<events, parts, firstSeen, latest, feed, disconnect, consumer, reference>>
closeVars == <<handle, deleteFailed, closeRejected, closeCalls, inFlight>>

\* What a close() made inside runOpencodePrompt leaves behind.
Settle(h, deleteOk) ==
    /\ handle' = h
    /\ deleteFailed' = (deleteFailed \/ (h.deletes > handle.deletes /\ ~deleteOk))
    /\ closeRejected' =
          (closeRejected
           \/ (h.deletes > handle.deletes /\ closeSettles(deleteOk) # "resolved"))

\* client.session.create and the check of session.data.
CreateSession(res) ==
    /\ UNCHANGED outsidePrompt
    /\ pc = "start"
    /\ IF res = "data"
       THEN /\ sessionCreated' = TRUE
            /\ pc' = "created"
            /\ outcome' = outcome
       ELSE /\ sessionCreated' = FALSE
            /\ pc' = "raised"
            /\ outcome' = raised(FALSE, "Failed to create session")
    /\ requests' = [requests EXCEPT !.create = @ + 1]
    /\ UNCHANGED unseen
    /\ UNCHANGED <<now, streamVars, closeVars>>

\* client.session.promptAsync, and the catch block when it throws.
PromptAsync(ok, deleteOk) ==
    /\ UNCHANGED outsidePrompt
    /\ pc = "created"
    /\ IF ok
       THEN /\ pc' = "prompted"
            /\ UNCHANGED <<outcome, handle, deleteFailed, closeRejected>>
       ELSE LET c == catchBlock(handle, "promptAsync failed") IN
            /\ pc' = "raised"
            /\ outcome' = c.outcome
            /\ Settle(c.handle, deleteOk)
    /\ requests' = [requests EXCEPT !.promptAsync = @ + 1]
    /\ UNCHANGED unseen
    /\ UNCHANGED <<now, streamVars, sessionCreated, closeCalls, inFlight>>

\* processEventStream up to its first await of an event.
Subscribe(sub) ==
    /\ UNCHANGED outsidePrompt
    /\ pc = "prompted"
    /\ pc' = "consuming"
    /\ consumer' = connect(consumer, sub, now)
    /\ reference' = connect(reference, sub, now)
    /\ UNCHANGED <<now, events, parts, firstSeen, latest, feed, disconnect,
                   sessionCreated, requests, unseen, closeVars, outcome>>

Iterating == pc = "consuming" /\ consumer.status = "iterating"

IsOwn(event, type) == Owner(event) = SID /\ event.type = type

\* The feed delivers an event and the loop body runs on it.
Deliver(event) ==
    /\ UNCHANGED outsidePrompt
    /\ Iterating
    /\ events < MaxEvents
    /\ IsOwn(event, "message.part.updated") => parts < MaxParts
    /\ IsOwn(event, "permission.updated") =>
           Len(consumer.permissionReplies) < MaxPerms
    /\ events' = events + 1
    /\ IF IsOwn(event, "message.part.updated")
       THEN LET part == event.properties.part IN
            /\ parts' = parts + 1
            /\ firstSeen' = IF latest[part.id].present THEN firstSeen
                            ELSE Append(firstSeen, part.id)
            /\ latest' = [latest EXCEPT ![part.id] = part]
       ELSE UNCHANGED <<parts, firstSeen, latest>>
    /\ consumer' = processEvent(consumer, event, now)
    /\ reference' = IF reference.status = "iterating" /\ Owner(event) = SID
                    THEN processEvent(reference, event, now)
                    ELSE reference
    /\ UNCHANGED <<pc, now, feed, disconnect, sessionCreated, requests, unseen, closeVars, outcome>>

Prompting == pc = "consuming" /\ consumer.status = "prompting"

\* The permission prompt settles before the timer fires: the user chooses,
\* cancels, or the prompt throws.
UserAnswers(answer) ==
    /\ UNCHANGED outsidePrompt
    /\ Prompting
    /\ consumer' = raceSettles(consumer, answer)
    /\ reference' = IF reference.status = "prompting"
                    THEN raceSettles(reference, answer) ELSE reference
    /\ UNCHANGED <<pc, now, events, parts, firstSeen, latest, feed, disconnect,
                   sessionCreated, requests, unseen, closeVars, outcome>>

\* The PERMISSION_PROMPT_TIMEOUT_MS timer fires first.
PermissionTimeout ==
    /\ UNCHANGED outsidePrompt
    /\ Prompting
    /\ consumer' = raceSettles(consumer, "timeout")
    /\ reference' = IF reference.status = "prompting"
                    THEN raceSettles(reference, "timeout") ELSE reference
    /\ UNCHANGED <<pc, now, events, parts, firstSeen, latest, feed, disconnect,
                   sessionCreated, requests, unseen, closeVars, outcome>>

\* The reply to the backend settles and the loop awaits the next event.
PostReply(replyOk) ==
    /\ UNCHANGED outsidePrompt
    /\ pc = "consuming" /\ consumer.status = "replying"
    /\ consumer' = postReply(consumer, replyOk)
    /\ reference' = IF reference.status = "replying"
                    THEN postReply(reference, replyOk) ELSE reference
    /\ UNCHANGED <<pc, now, events, parts, firstSeen, latest, feed, disconnect,
                   sessionCreated, requests, unseen, closeVars, outcome>>

\* The feed ends: the loop is left without an exception.
StreamEnd ==
    /\ UNCHANGED outsidePrompt
    /\ Iterating
    /\ feed' = "ended"
    /\ consumer' = afterLoop(consumer)
    /\ reference' = IF reference.status = "iterating"
                    THEN afterLoop(reference) ELSE reference
    /\ UNCHANGED <<pc, now, events, parts, firstSeen, latest, disconnect,
                   sessionCreated, requests, unseen, closeVars, outcome>>

\* The feed throws: the catch block of the loop and what follows it.
StreamThrow(sub, get, messages) ==
    /\ UNCHANGED outsidePrompt
    /\ Iterating
    /\ feed' = "threw"
    /\ disconnect' = [sub |-> sub, get |-> get, messages |-> messages]
    /\ consumer' = reconnect(consumer, sub, get, messages)
    /\ reference' = IF reference.status = "iterating"
                    THEN reconnect(reference, sub, get, messages) ELSE reference
    /\ UNCHANGED <<pc, now, events, parts, firstSeen, latest, sessionCreated, requests, unseen,
                   closeVars, outcome>>

\* Time passes while the loop waits for the next event.
Tick ==
    /\ UNCHANGED outsidePrompt
    /\ pc = "consuming" /\ consumer.status \in {"iterating", "prompting"}
    /\ now < MaxTicks * (OPERATION_TIMEOUT_MS + 1)
    /\ now' = now + OPERATION_TIMEOUT_MS + 1
    /\ UNCHANGED <<pc, streamVars, sessionCreated, requests, unseen, closeVars, outcome>>

\* processEventStream has settled: the rest of runOpencodePrompt.
Finish(deleteOk) ==
    /\ UNCHANGED outsidePrompt
    /\ pc = "consuming"
    /\ consumer.status \in {"returned", "threw"}
    /\ LET c == complete(consumer, handle) IN
       /\ outcome' = c.outcome
       /\ pc' = IF c.outcome.kind = "returned" THEN "returned" ELSE "raised"
       /\ Settle(c.handle, deleteOk)
    /\ UNCHANGED <<now, streamVars, sessionCreated, requests, unseen, closeCalls, inFlight>>

\* The holder of the handle calls close(): runCommitPrompt, generateChangelog,
\* generatePRContent and updateChangelogFile await one call.
CloseCall ==
    /\ UNCHANGED outsidePrompt
    /\ pc = "returned"
    /\ closeCalls < MaxCloseCalls
    /\ closeCalls' = closeCalls + 1
    /\ handle' = close(handle)
    /\ inFlight' = inFlight + (handle'.deletes - handle.deletes)
    /\ UNCHANGED <<pc, now, streamVars, sessionCreated, requests, unseen, deleteFailed,
                   closeRejected, outcome>>

\* A session.delete request of the holder settles.
DeleteSettle(deleteOk) ==
    /\ UNCHANGED outsidePrompt
    /\ inFlight > 0
    /\ inFlight' = inFlight - 1
    /\ deleteFailed' = (deleteFailed \/ ~deleteOk)
    /\ closeRejected' = (closeRejected \/ closeSettles(deleteOk) # "resolved")
    /\ UNCHANGED <<pc, now, streamVars, sessionCreated, requests, unseen, handle, closeCalls, outcome>>

\* The caller returns once the close() it awaited has settled.
CallerReturn ==
    /\ UNCHANGED outsidePrompt
    /\ pc = "returned"
    /\ closeCalls >= 1
    /\ inFlight = 0
    /\ pc' = "done"
    /\ UNCHANGED <<now, streamVars, sessionCreated, requests, unseen, closeVars, outcome>>

Next ==
    \/ \E res \in {"data", "nodata", "throws"} : CreateSession(res)
    \/ \E ok \in BOOLEAN, deleteOk \in BOOLEAN : PromptAsync(ok, deleteOk)
    \/ \E sub \in SubscribeResults : Subscribe(sub)
    \/ \E event \in Events : Deliver(event)
    \/ \E answer \in Answers \ {"timeout"} : UserAnswers(answer)
    \/ PermissionTimeout
    \/ \E replyOk \in BOOLEAN : PostReply(replyOk)
    \/ StreamEnd
    \/ \E d \in Disconnects : StreamThrow(d.sub, d.get, d.messages)
    \/ Tick
    \/ \E deleteOk \in BOOLEAN : Finish(deleteOk)
    \/ CloseCall
    \/ \E deleteOk \in BOOLEAN : DeleteSettle(deleteOk)
    \/ CallerReturn

Spec == Init /\ [][Next]_vars

TypeOK ==
    /\ pc \in {"start", "created", "prompted", "consuming", "returned",
               "raised", "done"}
    /\ events \in 0..MaxEvents
    /\ handle.deletes \in 0..(MaxCloseCalls + 2)
    /\ inFlight \in 0..MaxCloseCalls

\* Fairness: the clock advances, and every call the program has made to
\* the backend settles; the feed is not obliged to deliver anything.
FairSpec ==
    /\ Spec
    /\ WF_vars(Tick)
    /\ WF_vars(\E res \in {"data", "nodata", "throws"} : CreateSession(res))
    /\ WF_vars(\E ok \in BOOLEAN, deleteOk \in BOOLEAN : PromptAsync(ok, deleteOk))
    /\ WF_vars(\E sub \in SubscribeResults : Subscribe(sub))
    /\ WF_vars(PermissionTimeout)
    /\ WF_vars(\E replyOk \in BOOLEAN : PostReply(replyOk))
    /\ WF_vars(\E deleteOk \in BOOLEAN : Finish(deleteOk))
    /\ WF_vars(\E deleteOk \in BOOLEAN : DeleteSettle(deleteOk))

\* The runs of one call up to the end of runOpencodePrompt on a feed that
\* does not disconnect, with the same fairness.
PromptNext ==
    \/ \E res \in {"data", "nodata", "throws"} : CreateSession(res)
    \/ \E ok \in BOOLEAN, deleteOk \in BOOLEAN : PromptAsync(ok, deleteOk)
    \/ \E sub \in SubscribeResults : Subscribe(sub)
    \/ \E event \in Events : Deliver(event)
    \/ \E answer \in Answers \ {"timeout"} : UserAnswers(answer)
    \/ PermissionTimeout
    \/ \E replyOk \in BOOLEAN : PostReply(replyOk)
    \/ StreamEnd
    \/ Tick
    \/ \E deleteOk \in BOOLEAN : Finish(deleteOk)

PromptFairSpec ==
    /\ Init /\ [][PromptNext]_vars
    /\ WF_vars(Tick)
    /\ WF_vars(\E res \in {"data", "nodata", "throws"} : CreateSession(res))
    /\ WF_vars(\E ok \in BOOLEAN, deleteOk \in BOOLEAN : PromptAsync(ok, deleteOk))
    /\ WF_vars(\E sub \in SubscribeResults : Subscribe(sub))
    /\ WF_vars(PermissionTimeout)
    /\ WF_vars(\E replyOk \in BOOLEAN : PostReply(replyOk))
    /\ WF_vars(\E deleteOk \in BOOLEAN : Finish(deleteOk))

\* The runs of one call, up to the end of runOpencodePrompt, with each of
\* the spinner arguments a caller can pass.
SpinnerInit ==
    /\ \E sp \in Spinners : PromptStart(sp)
    /\ ClientAtRest(NoEnvironment)
    /\ CommitAtRest(NoOptions)
    /\ RunnerAtRest(<<>>)
    /\ ConfigAtRest(MissingFile, MissingFile)
    /\ ReleaseAtRest(NoReleaseOptions)
    /\ DeslopAtRest(NoDeslopOptions)

SpinnerSpec == SpinnerInit /\ [][PromptNext]_vars

\* info.role and part.id are read from event.properties.info and
\* event.properties.part without a check: on undefined this is a TypeError.
bodyThrows(event) ==
    \/ (event.type = "message.updated" /\ ~event.properties.info.present)
    \/ (event.type = "message.part.updated" /\ ~event.properties.part.present)

\* The feed delivers an event on which the loop body throws: past the
\* deadline test and the session filter, the exception leaves the loop into
\* its catch block.
DeliverMalformed(event, d) ==
    /\ UNCHANGED outsidePrompt
    /\ Iterating
    /\ events < MaxEvents
    /\ isEventForSession(event, SID)
    /\ bodyThrows(event)
    /\ events' = events + 1
    /\ IF now - consumer.startTime > OPERATION_TIMEOUT_MS
       THEN /\ consumer' = processEvent(consumer, event, now)
            /\ reference' = IF reference.status = "iterating"
                            THEN processEvent(reference, event, now)
                            ELSE reference
            /\ UNCHANGED disconnect
       ELSE /\ consumer' = reconnect(consumer, d.sub, d.get, d.messages)
            /\ reference' = IF reference.status = "iterating"
                            THEN reconnect(reference, d.sub, d.get, d.messages)
                            ELSE reference
            /\ disconnect' = d
    /\ UNCHANGED <<pc, now, parts, firstSeen, latest, feed, sessionCreated,
                   requests, unseen, closeVars, outcome>>

MalformedNext ==
    \/ PromptNext
    \/ \E event \in UnknownEvents : Deliver(event)
    \/ \E event \in MalformedEvents, d \in Disconnects : DeliverMalformed(event, d)

\* The runs of one call on a feed that also carries events of the session
\* with an unknown type or without their payload.
MalformedSpec == Init /\ [][MalformedNext]_vars

\* The backend has accepted promptAsync and completes the response before
\* event.subscribe of the call is established: the event goes to the
\* subscribers of that moment, and the stream the call obtains later starts
\* after it.
CompleteBeforeSubscribe ==
    /\ UNCHANGED outsidePrompt
    /\ pc = "prompted"
    /\ ~unseen
    /\ unseen' = TRUE
    /\ UNCHANGED <<pc, now, streamVars, sessionCreated, requests, closeVars, outcome>>

RaceNext ==
    \/ PromptNext
    \/ CompleteBeforeSubscribe

\* The runs of one call with a backend that may complete the response
\* between promptAsync and event.subscribe.
RaceSpec == Init /\ [][RaceNext]_vars

\* ------------------------------------------------------ getClient, cleanup
Running == process.state = "running"
InFlight(c) == calls[c].pc \notin {"idle", "returned"}
NoCallInFlight == \A c \in 1..MaxCalls : ~InFlight(c)

\* process.exit(code): the 'exit' listeners run, then the process is gone.
processExit(code, path) ==
    /\ closes' = emitExit(closes, serverInstance, listeners)
    /\ process' = [state |-> "exited", exitCode |-> code, path |-> path]

GetClient(c) ==
    /\ Running
    /\ calls[c].pc = "idle"
    /\ IF c = 1 THEN TRUE ELSE calls[c - 1].pc # "idle"
    /\ calls' = [calls EXCEPT ![c] = getClientStart(@, clientInstance, env)]
    /\ UNCHANGED <<env, clientInstance, serverInstance, servers, closes,
                   authenticated, listeners, process>>
    /\ UNCHANGED outsideClient

\* await client.config.get() on the endpoint of the environment
EnvProbeSettles(c, ok) ==
    /\ Running
    /\ calls[c].pc = "envProbe"
    /\ IF ok
       THEN /\ clientInstance' = EnvClient
            /\ calls' = [calls EXCEPT ![c] = probeAnswered(@, "envProbe", EnvClient)]
       ELSE /\ calls' = [calls EXCEPT ![c] = envProbeFailed(@)]
            /\ UNCHANGED clientInstance
    /\ UNCHANGED <<env, serverInstance, servers, closes, authenticated,
                   listeners, process>>
    /\ UNCHANGED outsideClient

\* await client.config.get() on DEFAULT_OPENCODE_URL
DefaultProbeSettles(c, ok) ==
    /\ Running
    /\ calls[c].pc = "defaultProbe"
    /\ IF ok
       THEN /\ clientInstance' = DefaultClient
            /\ calls' = [calls EXCEPT ![c] = probeAnswered(@, "defaultProbe", DefaultClient)]
       ELSE /\ calls' = [calls EXCEPT ![c] = defaultProbeFailed(@)]
            /\ UNCHANGED clientInstance
    /\ UNCHANGED <<env, serverInstance, servers, closes, authenticated,
                   listeners, process>>
    /\ UNCHANGED outsideClient

\* if (!(await isOpencodeInstalled())) process.exit(1)
InstalledSettles(c, installed) ==
    /\ Running
    /\ calls[c].pc = "isOpencodeInstalled"
    /\ calls' = [calls EXCEPT ![c] =
                     [did(@, "isOpencodeInstalled", installed)
                          EXCEPT !.pc = IF installed THEN "createOpencode" ELSE "exit"]]
    /\ IF installed
       THEN UNCHANGED <<closes, process>>
       ELSE processExit(1, "process.exit")
    /\ UNCHANGED <<env, clientInstance, serverInstance, servers, authenticated,
                   listeners>>
    /\ UNCHANGED outsideClient

\* await createOpencode({timeout}); a failure is caught and ends the process
CreateOpencodeSettles(c, ok) ==
    /\ Running
    /\ calls[c].pc = "createOpencode"
    /\ IF ok
       THEN /\ servers' = servers + 1
            /\ clientInstance' = SpawnedClient(servers + 1)
            /\ serverInstance' = servers + 1
            /\ calls' = [calls EXCEPT ![c] =
                             [did(@, "createOpencode", TRUE)
                                  EXCEPT !.pc = "checkAuth", !.opencode = servers + 1]]
            /\ UNCHANGED <<closes, process>>
       ELSE /\ calls' = [calls EXCEPT ![c] =
                             [did(@, "createOpencode", FALSE) EXCEPT !.pc = "exit"]]
            /\ processExit(1, "process.exit")
            /\ UNCHANGED <<servers, clientInstance, serverInstance>>
    /\ UNCHANGED <<env, authenticated, listeners>>
    /\ UNCHANGED outsideClient

\* if (!(await checkAuth(opencode.client))) process.exit(1); otherwise the
\* listeners are registered and opencode.client is returned
CheckAuthSettles(c, ok) ==
    /\ Running
    /\ calls[c].pc = "checkAuth"
    /\ IF ok
       THEN /\ authenticated' = authenticated \cup {calls[c].opencode}
            /\ listeners' = listeners + 1
            /\ calls' = [calls EXCEPT ![c] =
                             [did(@, "checkAuth", TRUE)
                                  EXCEPT !.pc = "returned",
                                         !.result = SpawnedClient(calls[c].opencode)]]
            /\ UNCHANGED <<closes, process>>
       ELSE /\ calls' = [calls EXCEPT ![c] =
                             [did(@, "checkAuth", FALSE) EXCEPT !.pc = "exit"]]
            /\ processExit(1, "process.exit")
            /\ UNCHANGED <<authenticated, listeners>>
    /\ UNCHANGED <<env, clientInstance, serverInstance, servers>>
    /\ UNCHANGED outsideClient

\* cleanup(), called by a command between its awaits
Cleanup ==
    /\ Running
    /\ NoCallInFlight
    /\ closes' = closeServer(closes, serverInstance)
    /\ serverInstance' = 0
    /\ clientInstance' = NoClient
    /\ UNCHANGED <<env, calls, servers, authenticated, listeners, process>>
    /\ UNCHANGED outsideClient

\* process.exit(code), called by a command
ProcessExit(code) ==
    /\ Running
    /\ NoCallInFlight
    /\ processExit(code, "process.exit")
    /\ UNCHANGED <<env, clientInstance, serverInstance, calls, servers,
                   authenticated, listeners>>
    /\ UNCHANGED outsideClient

\* Nothing is left to run: the process ends and emits 'exit'.
BareExit ==
    /\ Running
    /\ NoCallInFlight
    /\ processExit(0, "bare exit")
    /\ UNCHANGED <<env, clientInstance, serverInstance, calls, servers,
                   authenticated, listeners>>
    /\ UNCHANGED outsideClient

\* SIGINT or SIGTERM: without a listener the signal ends the process; with
\* listeners the first one runs serverInstance?.close(); process.exit(0).
Signal(sig) ==
    /\ Running
    /\ IF listeners = 0
       THEN /\ process' = [state |-> "killed", exitCode |-> Undefined, path |-> sig]
            /\ UNCHANGED closes
       ELSE /\ closes' = emitExit(closeServer(closes, serverInstance),
                                  serverInstance, listeners)
            /\ process' = [state |-> "exited", exitCode |-> 0, path |-> sig]
    /\ UNCHANGED <<env, clientInstance, serverInstance, calls, servers,
                   authenticated, listeners>>
    /\ UNCHANGED outsideClient

ClientInit ==
    /\ \E e \in Environments : ClientAtRest(e)
    /\ PromptAtRest
    /\ CommitAtRest(NoOptions)
    /\ RunnerAtRest(<<>>)
    /\ ConfigAtRest(MissingFile, MissingFile)
    /\ ReleaseAtRest(NoReleaseOptions)
    /\ DeslopAtRest(NoDeslopOptions)

ClientNext ==
    \/ \E c \in 1..MaxCalls : GetClient(c)
    \/ \E c \in 1..MaxCalls, ok \in BOOLEAN : EnvProbeSettles(c, ok)
    \/ \E c \in 1..MaxCalls, ok \in BOOLEAN : DefaultProbeSettles(c, ok)
    \/ \E c \in 1..MaxCalls, installed \in BOOLEAN : InstalledSettles(c, installed)
    \/ \E c \in 1..MaxCalls, ok \in BOOLEAN : CreateOpencodeSettles(c, ok)
    \/ \E c \in 1..MaxCalls, ok \in BOOLEAN : CheckAuthSettles(c, ok)
    \/ Cleanup
    \/ \E code \in {0, 1} : ProcessExit(code)
    \/ BareExit
    \/ \E sig \in Signals : Signal(sig)

ClientSpec == ClientInit /\ [][ClientNext]_vars

\* ---------------------------------------------------------- commitCommand
\* cleanup(); process.exit(code)
cleanupAndExit(code, why) ==
    /\ closes' = closeServer(closes, serverInstance)
    /\ serverInstance' = 0
    /\ clientInstance' = NoClient
    /\ process' = [state |-> "exited", exitCode |-> code, path |-> "process.exit"]
    /\ ended' = why
    /\ cpc' = "exit"
    /\ UNCHANGED <<env, calls, servers, authenticated, listeners>>

\* process.exit(1) inside getClient: the backend is missing, does not start,
\* or is not authenticated
getClientExits ==
    /\ processExit(1, "process.exit")
    /\ ended' = "backend unavailable"
    /\ cpc' = "exit"
    /\ UNCHANGED <<env, clientInstance, serverInstance, calls, servers,
                   authenticated, listeners>>

goto(next) ==
    /\ cpc' = next
    /\ UNCHANGED <<ended, clientVars>>

At(where) == Running /\ cpc = where

confirmStageSkipped == "commit"

\* if (!options.yes && !options.accept) confirmWithMode(...)
confirmStage == IF ~options.yes /\ ~options.accept THEN "confirmWithMode" ELSE "commit"

\* let commitMessage = options.message; if (!commitMessage) generate it
messageStage ==
    IF options.message # NoMessage THEN confirmStage ELSE "generateCommitMessage"

\* if (branchFlow === "abort") { cleanup(); process.exit(0); }
branchReturns(flow) ==
    /\ branchFlow' = flow
    /\ IF flow.result = "abort"
       THEN /\ cleanupAndExit(0, "branch aborted")
            /\ UNCHANGED commitMessage
       ELSE /\ commitMessage' = options.message
            /\ goto(messageStage)

IsGitRepo(repo) ==
    /\ At("isGitRepo")
    /\ IF repo THEN goto("getStatus") ELSE cleanupAndExit(1, "not a git repository")
    /\ UNCHANGED <<executionMode, cancelSeen, options, status, commitMessage, branchFlow, gitCommits>>
    /\ UNCHANGED outsideCommit

GetStatus(s) ==
    /\ At("getStatus")
    /\ LET first == IF options.all /\ hasChanges(s) THEN stageAll(s) ELSE s IN
       IF first.staged
       THEN status' = first /\ goto("getStagedDiff")
       ELSE IF ~first.unstaged
       THEN status' = first /\ cleanupAndExit(0, "nothing to commit")
       ELSE IF ~options.yes
       THEN status' = first /\ goto("confirmStage")
       ELSE status' = stageAll(first) /\ goto("getStagedDiff")
    /\ UNCHANGED <<executionMode, cancelSeen, options, commitMessage, branchFlow, gitCommits>>
    /\ UNCHANGED outsideCommit

\* confirmAction("Stage all changes?", true)
ConfirmStage(response) ==
    /\ At("confirmStage")
    /\ IF confirmAction(executionMode, response, "true") = "true"
       THEN status' = stageAll(status) /\ goto("getStagedDiff")
       ELSE cleanupAndExit(0, "declined staging") /\ UNCHANGED status
    /\ UNCHANGED <<executionMode, cancelSeen, options, commitMessage, branchFlow, gitCommits>>
    /\ UNCHANGED outsideCommit

GetStagedDiff(diff) ==
    /\ At("getStagedDiff")
    /\ IF ~diff
       THEN cleanupAndExit(0, "no diff") /\ UNCHANGED <<branchFlow, commitMessage>>
       ELSE IF options.skipBranch
       THEN branchReturns(continue("skipBranch"))
       ELSE goto("branchFlow") /\ UNCHANGED <<branchFlow, commitMessage>>
    /\ UNCHANGED <<executionMode, cancelSeen, options, status, gitCommits>>
    /\ UNCHANGED outsideCommit

\* maybeCreateBranchForCommit up to the confirmation or the branch name
BranchFlowStart(currentBranch, isDefaultBranch, flags) ==
    /\ At("branchFlow")
    /\ isDefaultBranch => currentBranch
    /\ IF ~currentBranch
       THEN branchReturns(continue("no current branch"))
       ELSE IF options.branch
       THEN goto("branchExists") /\ UNCHANGED <<branchFlow, commitMessage>>
       ELSE IF isDefaultBranch /\ flags.forceNewBranchOnDefault
       THEN goto("generateBranchName") /\ UNCHANGED <<branchFlow, commitMessage>>
       ELSE IF options.yes
       THEN IF (IF isDefaultBranch THEN flags.autoCreateBranchOnDefault
                ELSE flags.autoCreateBranchOnNonDefault)
            THEN goto("generateBranchName") /\ UNCHANGED <<branchFlow, commitMessage>>
            ELSE branchReturns(continue("not created"))
       ELSE goto("confirmBranch") /\ UNCHANGED <<branchFlow, commitMessage>>
    /\ UNCHANGED <<executionMode, cancelSeen, options, status, gitCommits>>
    /\ UNCHANGED outsideCommit

\* confirmAction("Create a new branch for this commit?", defaultValue)
\* if (confirmResult === null) return "abort"; shouldCreate = confirmResult
ConfirmBranch(response, defaultValue) ==
    /\ At("confirmBranch")
    /\ LET confirmResult == confirmAction(executionMode, response, defaultValue) IN
       IF confirmResult = "null"
       THEN branchReturns(abort("cancelled"))
       ELSE IF confirmResult = "false"
       THEN branchReturns(continue("not created"))
       ELSE goto("generateBranchName") /\ UNCHANGED <<branchFlow, commitMessage>>
    /\ UNCHANGED <<executionMode, cancelSeen, options, status, gitCommits>>
    /\ UNCHANGED outsideCommit

\* await generateBranchName(...) in resolveBranchName; a throw is caught by
\* maybeCreateBranchForCommit, which returns "abort"
GenerateBranchName(res) ==
    /\ Running
    /\ cpc \in {"generateBranchName", "regenerateBranchName"}
    /\ IF res = "exit"
       THEN getClientExits /\ UNCHANGED <<branchFlow, commitMessage>>
       ELSE IF res = "throws"
       THEN branchReturns(abort("generation failed"))
       ELSE /\ goto(IF cpc = "regenerateBranchName" THEN "branchAction"
                    ELSE IF options.yes THEN "branchExists"
                    ELSE "confirmBranchName")
            /\ UNCHANGED <<branchFlow, commitMessage>>
    /\ UNCHANGED <<executionMode, cancelSeen, options, status, gitCommits>>
    /\ UNCHANGED outsideCommit

ConfirmBranchName(response) ==
    /\ At("confirmBranchName")
    /\ LET result == confirmWithMode(executionMode, response) IN
       IF result = "cancel"
       THEN branchReturns(abort("cancelled"))
       ELSE /\ goto(IF result = "accept" THEN "branchExists" ELSE "branchAction")
            /\ UNCHANGED <<branchFlow, commitMessage>>
    /\ UNCHANGED <<executionMode, cancelSeen, options, status, gitCommits>>
    /\ UNCHANGED outsideCommit

BranchActions == {"create", "intent", "edit", "regenerate", "cancel"}

BranchAction(action) ==
    /\ At("branchAction")
    /\ IF action = "cancel"
       THEN branchReturns(abort("cancelled"))
       ELSE /\ goto(IF action = "create" THEN "branchExists"
                    ELSE IF action = "regenerate" THEN "regenerateBranchName"
                    ELSE "branchAction")
            /\ UNCHANGED <<branchFlow, commitMessage>>
    /\ UNCHANGED <<executionMode, cancelSeen, options, status, gitCommits>>
    /\ UNCHANGED outsideCommit

\* while (await branchExists(branchName)) in ensureUniqueBranchName
BranchExists(exists) ==
    /\ At("branchExists")
    /\ IF ~exists
       THEN goto("createBranch") /\ UNCHANGED <<branchFlow, commitMessage>>
       ELSE IF options.yes
       THEN branchReturns(abort("branch exists"))
       ELSE goto("enterBranchName") /\ UNCHANGED <<branchFlow, commitMessage>>
    /\ UNCHANGED <<executionMode, cancelSeen, options, status, gitCommits>>
    /\ UNCHANGED outsideCommit

EnterBranchName(cancelled) ==
    /\ At("enterBranchName")
    /\ IF cancelled
       THEN branchReturns(abort("cancelled"))
       ELSE goto("branchExists") /\ UNCHANGED <<branchFlow, commitMessage>>
    /\ UNCHANGED <<executionMode, cancelSeen, options, status, gitCommits>>
    /\ UNCHANGED outsideCommit

CreateBranch(ok) ==
    /\ At("createBranch")
    /\ branchReturns(IF ok THEN continue("created") ELSE abort("creation failed"))
    /\ UNCHANGED <<executionMode, cancelSeen, options, status, gitCommits>>
    /\ UNCHANGED outsideCommit

\* await generateCommitMessage(...), first or after "regenerate"
GenerateCommitMessage(res, message) ==
    /\ Running
    /\ cpc \in {"generateCommitMessage", "regenerateCommitMessage"}
    /\ IF res = "exit"
       THEN getClientExits /\ UNCHANGED commitMessage
       ELSE IF res = "throws"
       THEN /\ cleanupAndExit(1, "commit message generation failed")
            /\ UNCHANGED commitMessage
       ELSE /\ commitMessage' = message
            /\ goto(IF cpc = "regenerateCommitMessage" THEN "action" ELSE confirmStage)
    /\ UNCHANGED <<executionMode, cancelSeen, options, status, branchFlow, gitCommits>>
    /\ UNCHANGED outsideCommit

\* confirmWithMode({content: commitMessage, ...})
ConfirmMessage(response) ==
    /\ At("confirmWithMode")
    /\ LET confirmResult == confirmWithMode(executionMode, response) IN
       IF confirmResult = "cancel"
       THEN cleanupAndExit(0, "cancelled")
       ELSE goto(IF confirmResult = "accept" THEN "commit" ELSE "action")
    /\ cancelSeen' = (cancelSeen \/ confirmWithMode(executionMode, response) = "cancel")
    /\ UNCHANGED <<executionMode, options, status, commitMessage, branchFlow, gitCommits>>
    /\ UNCHANGED outsideCommit

\* The choices "commit", "regenerate" and "cancel" of the action loop
SelectAction(action) ==
    /\ At("action")
    /\ IF action = "cancel"
       THEN cleanupAndExit(0, "cancelled")
       ELSE goto(IF action = "commit" THEN "commit" ELSE "regenerateCommitMessage")
    /\ cancelSeen' = (cancelSeen \/ action = "cancel")
    /\ UNCHANGED <<executionMode, options, status, commitMessage, branchFlow, gitCommits>>
    /\ UNCHANGED outsideCommit

\* The choice "intent": promptForIntent, then replaceCommitIntent
ChangeIntent(cancelled, newIntent) ==
    /\ At("action")
    /\ commitMessage' =
           IF cancelled THEN commitMessage
           ELSE replaceCommitIntent(commitMessage, newIntent)
    /\ cancelSeen' = (cancelSeen \/ cancelled)
    /\ goto("action")
    /\ UNCHANGED <<executionMode, options, status, branchFlow, gitCommits>>
    /\ UNCHANGED outsideCommit

\* The choice "edit": p.text with the validation of a non-blank value
EditMessage(cancelled, edited) ==
    /\ At("action")
    /\ commitMessage' = IF cancelled THEN commitMessage ELSE edited
    /\ cancelSeen' = (cancelSeen \/ cancelled)
    /\ goto("action")
    /\ UNCHANGED <<executionMode, options, status, branchFlow, gitCommits>>
    /\ UNCHANGED outsideCommit

\* if (!commitMessage) exit 1; await commit(commitMessage)
Commit(ok) ==
    /\ At("commit")
    /\ IF commitMessage = NoMessage
       THEN cleanupAndExit(1, "no commit message") /\ UNCHANGED gitCommits
       ELSE /\ gitCommits' = Append(gitCommits, commitMessage)
            /\ IF ok THEN goto("getConfig") ELSE cleanupAndExit(1, "commit failed")
    /\ UNCHANGED <<executionMode, cancelSeen, options, status, commitMessage, branchFlow>>
    /\ UNCHANGED outsideCommit

\* const config = await getConfig(); if (config.commit?.autoPush) push
AfterCommit(autoPush) ==
    /\ At("getConfig")
    /\ IF autoPush THEN goto("pushBranch") ELSE cleanupAndExit(0, "committed")
    /\ UNCHANGED <<executionMode, cancelSeen, options, status, commitMessage, branchFlow, gitCommits>>
    /\ UNCHANGED outsideCommit

\* await pushBranch(); a failure is logged as a warning
PushBranch(ok) ==
    /\ At("pushBranch")
    /\ cleanupAndExit(0, IF ok THEN "committed and pushed" ELSE "committed, push failed")
    /\ UNCHANGED <<executionMode, cancelSeen, options, status, commitMessage, branchFlow, gitCommits>>
    /\ UNCHANGED outsideCommit

Answers3 == {"null", "true", "false"}

CommitInit ==
    /\ PromptAtRest
    /\ ClientAtRest(NoEnvironment)
    /\ \E o \in CommitOptions, mode \in ExecutionModes : CommitStart(o, mode)
    /\ RunnerAtRest(<<>>)
    /\ ConfigAtRest(MissingFile, MissingFile)
    /\ ReleaseAtRest(NoReleaseOptions)
    /\ DeslopAtRest(NoDeslopOptions)

CommitNext ==
    \/ \E repo \in BOOLEAN : IsGitRepo(repo)
    \/ \E s \in GitStatuses : GetStatus(s)
    \/ \E response \in ConfirmResponses : ConfirmStage(response)
    \/ \E diff \in BOOLEAN : GetStagedDiff(diff)
    \/ \E currentBranch \in BOOLEAN, isDefaultBranch \in BOOLEAN,
          flags \in BranchConfigs :
           BranchFlowStart(currentBranch, isDefaultBranch, flags)
    \/ \E response \in ConfirmResponses, defaultValue \in {"true", "false"} :
           ConfirmBranch(response, defaultValue)
    \/ \E res \in Generations : GenerateBranchName(res)
    \/ \E response \in ConfirmResponses : ConfirmBranchName(response)
    \/ \E action \in BranchActions : BranchAction(action)
    \/ \E exists \in BOOLEAN : BranchExists(exists)
    \/ \E cancelled \in BOOLEAN : EnterBranchName(cancelled)
    \/ \E ok \in BOOLEAN : CreateBranch(ok)
    \/ \E res \in Generations, message \in GeneratedMessages :
           GenerateCommitMessage(res, message)
    \/ \E response \in ConfirmResponses : ConfirmMessage(response)
    \/ \E action \in {"commit", "regenerate", "cancel"} : SelectAction(action)
    \/ \E cancelled \in BOOLEAN, newIntent \in Intents : ChangeIntent(cancelled, newIntent)
    \/ \E cancelled \in BOOLEAN, edited \in EditedMessages : EditMessage(cancelled, edited)
    \/ \E ok \in BOOLEAN : Commit(ok)
    \/ \E autoPush \in BOOLEAN : AfterCommit(autoPush)
    \/ \E ok \in BOOLEAN : PushBranch(ok)

CommitSpec == CommitInit /\ [][CommitNext]_vars

\* -------------------------------------------------------- runOpencodeOnce
settle(how) ==
    /\ run' = IF run.state = "pending" THEN how ELSE run
    /\ rpc' = "settled"

\* await rm(tempDir, {recursive: true, force: true}); when it rejects, the
\* handler neither resolves nor rejects the promise
cleanupThen(rmOk, how) ==
    IF tempDir = "none"
    THEN settle(how) /\ UNCHANGED tempDir
    ELSE IF rmOk
    THEN settle(how) /\ tempDir' = "removed"
    ELSE /\ rpc' = "unhandled rejection"
         /\ UNCHANGED <<tempDir, run>>

EnsureInstalled(ok) ==
    /\ rpc = "ensureOpencodeInstalled"
    /\ IF ok
       THEN rpc' = "resolveAttachUrl" /\ UNCHANGED run
       ELSE settle(rejected("OpenCode CLI is not installed"))
    /\ UNCHANGED <<files, tempDir, usedNames, paths, timedOut>>
    /\ UNCHANGED outsideRunner

\* await resolveAttachUrl(); then writeTempFiles up to its first await
ResolveAttachUrl ==
    /\ rpc = "resolveAttachUrl"
    /\ rpc' = IF files = <<>> THEN "spawn" ELSE "mkdtemp"
    /\ UNCHANGED <<files, tempDir, usedNames, paths, timedOut, run>>
    /\ UNCHANGED outsideRunner

Mkdtemp(ok) ==
    /\ rpc = "mkdtemp"
    /\ IF ok
       THEN tempDir' = "exists" /\ rpc' = "writeFile" /\ UNCHANGED run
       ELSE settle(rejected("mkdtemp failed")) /\ UNCHANGED tempDir
    /\ UNCHANGED <<files, usedNames, paths, timedOut>>
    /\ UNCHANGED outsideRunner

\* One turn of the loop of writeTempFiles; a failing writeFile leaves
\* writeTempFiles, and with it runOpencodeOnce, by the exception.
WriteFile(ok) ==
    /\ rpc = "writeFile"
    /\ LET i == Len(paths) + 1
           name == tempName(files[i], i, usedNames)
       IN /\ usedNames' = usedNames \cup {name}
          /\ IF ok
             THEN /\ paths' = Append(paths, name)
                  /\ rpc' = IF i = Len(files) THEN "spawn" ELSE "writeFile"
                  /\ UNCHANGED run
             ELSE /\ settle(rejected("write failure"))
                  /\ UNCHANGED paths
    /\ UNCHANGED <<files, tempDir, timedOut>>
    /\ UNCHANGED outsideRunner

\* spawn("opencode", args, ...) and setTimeout
SpawnChild ==
    /\ rpc = "spawn"
    /\ rpc' = "child"
    /\ UNCHANGED <<files, tempDir, usedNames, paths, timedOut, run>>
    /\ UNCHANGED outsideRunner

\* The timer fires: timedOut = true; child.kill("SIGTERM")
Timeout ==
    /\ rpc = "child"
    /\ ~timedOut
    /\ timedOut' = TRUE
    /\ UNCHANGED <<files, rpc, tempDir, usedNames, paths, run>>
    /\ UNCHANGED outsideRunner

\* child.on("error"): clearTimeout; await cleanup(); reject(error)
ChildError(rmOk) ==
    /\ rpc = "child"
    /\ ~timedOut
    /\ cleanupThen(rmOk, rejected("spawn error"))
    /\ UNCHANGED <<files, usedNames, paths, timedOut>>
    /\ UNCHANGED outsideRunner

\* child.on("close"): clearTimeout; await cleanup(); resolve({...})
ChildClose(code, rmOk) ==
    /\ rpc = "child"
    /\ cleanupThen(rmOk, resolved(code))
    /\ UNCHANGED <<files, usedNames, paths, timedOut>>
    /\ UNCHANGED outsideRunner

RunnerInit ==
    /\ PromptAtRest
    /\ ClientAtRest(NoEnvironment)
    /\ CommitAtRest(NoOptions)
    /\ \E f \in FileLists(MaxFiles) : RunnerAtRest(f)
    /\ ConfigAtRest(MissingFile, MissingFile)
    /\ ReleaseAtRest(NoReleaseOptions)
    /\ DeslopAtRest(NoDeslopOptions)

RunnerNext ==
    \/ \E ok \in BOOLEAN : EnsureInstalled(ok)
    \/ ResolveAttachUrl
    \/ \E ok \in BOOLEAN : Mkdtemp(ok)
    \/ \E ok \in BOOLEAN : WriteFile(ok)
    \/ SpawnChild
    \/ Timeout
    \/ \E rmOk \in BOOLEAN : ChildError(rmOk)
    \/ \E code \in ExitCodes, rmOk \in BOOLEAN : ChildClose(code, rmOk)

RunnerSpec == RunnerInit /\ [][RunnerNext]_vars

\* --------------------------------------------------------------- getConfig
\* getConfig up to await getRepoRoot(): the copy of the defaults, the global
\* file created when missing, else merged
LoadGlobal ==
    /\ gpc \in {"idle", "returned"}
    /\ getConfigs < MaxGetConfigs
    /\ getConfigs' = getConfigs + 1
    /\ IF globalFile.kind = "missing"
       THEN /\ globalFile' = writtenDefaults(DEFAULT_JSON_CONFIG)
            /\ config' = copyOfDefaults
            /\ UNCHANGED DEFAULT_JSON_CONFIG
       ELSE LET merged == mergeLayer(copyOfDefaults, globalFile, DEFAULT_JSON_CONFIG) IN
            /\ config' = merged.config
            /\ DEFAULT_JSON_CONFIG' = merged.defaults
            /\ UNCHANGED globalFile
    /\ gpc' = "getRepoRoot"
    /\ UNCHANGED <<projectFile, inRepo>>
    /\ UNCHANGED outsideConfig

\* await getRepoRoot(), then the project file if there is one
LoadProject(repo) ==
    /\ gpc = "getRepoRoot"
    /\ inRepo' = repo
    /\ LET merged == IF repo /\ projectFile.kind # "missing"
                     THEN mergeLayer(config, projectFile, DEFAULT_JSON_CONFIG)
                     ELSE [config |-> config, defaults |-> DEFAULT_JSON_CONFIG]
       IN /\ config' = merged.config
          /\ DEFAULT_JSON_CONFIG' = merged.defaults
    /\ gpc' = "returned"
    /\ UNCHANGED <<globalFile, projectFile, getConfigs>>
    /\ UNCHANGED outsideConfig

ConfigInit ==
    /\ PromptAtRest
    /\ ClientAtRest(NoEnvironment)
    /\ CommitAtRest(NoOptions)
    /\ RunnerAtRest(<<>>)
    /\ \E g \in ConfigFiles, p \in ConfigFiles : ConfigAtRest(g, p)
    /\ ReleaseAtRest(NoReleaseOptions)
    /\ DeslopAtRest(NoDeslopOptions)

ConfigNext ==
    \/ LoadGlobal
    \/ \E repo \in BOOLEAN : LoadProject(repo)

ConfigSpec == ConfigInit /\ [][ConfigNext]_vars

\* --------------------------------------------------------- releaseCommand
\* cleanup(); process.exit(code)
releaseExit(code, why) ==
    /\ closes' = closeServer(closes, serverInstance)
    /\ serverInstance' = 0
    /\ clientInstance' = NoClient
    /\ process' = [state |-> "exited", exitCode |-> code, path |-> "process.exit"]
    /\ releaseEnded' = why
    /\ lpc' = "exit"
    /\ UNCHANGED <<env, calls, servers, authenticated, listeners>>

\* An await of releaseCommand rejects outside any try: the command rejects
\* and the process ends with code 1.
releaseRejects(why) ==
    /\ processExit(1, "unhandled rejection")
    /\ releaseEnded' = why
    /\ lpc' = "rejected"
    /\ UNCHANGED <<env, clientInstance, serverInstance, calls, servers,
                   authenticated, listeners>>

step(next) ==
    IF next = "complete"
    THEN releaseExit(0, "release complete")
    ELSE lpc' = next /\ UNCHANGED <<releaseEnded, clientVars>>

In(where) == Running /\ lpc = where

ReleaseIsGitRepo(repo) ==
    /\ In("isGitRepo")
    /\ IF repo THEN step("getStatus") ELSE releaseExit(1, "not a git repository")
    /\ UNCHANGED <<releaseOptions, gitLog>>
    /\ UNCHANGED outsideRelease

ReleaseGetStatus(s) ==
    /\ In("getStatus")
    /\ step(IF ~hasChanges(s) THEN "findFromRef"
            ELSE IF s.unstaged /\ ~s.staged /\ ~releaseOptions.yes THEN "confirmStageAll"
            ELSE "getStagedDiff")
    /\ UNCHANGED <<releaseOptions, gitLog>>
    /\ UNCHANGED outsideRelease

\* p.confirm("Stage all changes?"), then stageAll and getStatus
ReleaseConfirmStage(shouldStage) ==
    /\ In("confirmStageAll")
    /\ IF shouldStage THEN step("getStagedDiff") ELSE releaseExit(0, "declined staging")
    /\ UNCHANGED <<releaseOptions, gitLog>>
    /\ UNCHANGED outsideRelease

ReleaseGetStagedDiff(diff) ==
    /\ In("getStagedDiff")
    /\ step(IF diff THEN "generateCommitMessage" ELSE "findFromRef")
    /\ UNCHANGED <<releaseOptions, gitLog>>
    /\ UNCHANGED outsideRelease

ReleaseGenerateCommitMessage(res) ==
    /\ In("generateCommitMessage")
    /\ IF res = "ok"
       THEN step(IF releaseOptions.yes THEN "commit" ELSE "confirmCommit")
       ELSE releaseRejects(IF res = "exit" THEN "backend unavailable"
                           ELSE "commit message generation failed")
    /\ UNCHANGED <<releaseOptions, gitLog>>
    /\ UNCHANGED outsideRelease

ReleaseConfirmCommit(confirmCommit) ==
    /\ In("confirmCommit")
    /\ IF confirmCommit THEN step("commit") ELSE releaseExit(0, "cancelled")
    /\ UNCHANGED <<releaseOptions, gitLog>>
    /\ UNCHANGED outsideRelease

\* await commit(commitMessage)
ReleaseCommit(ok) ==
    /\ In("commit")
    /\ gitLog' = Append(gitLog, GitOp("commit", ok))
    /\ IF ok THEN step("findFromRef") ELSE releaseRejects("commit failed")
    /\ UNCHANGED releaseOptions
    /\ UNCHANGED outsideRelease

\* options.from, else the latest version tag or the first commit
FindFromRef(found) ==
    /\ In("findFromRef")
    /\ IF releaseOptions.from \/ found
       THEN step("getCommitsBetween")
       ELSE releaseExit(1, "no starting point")
    /\ UNCHANGED <<releaseOptions, gitLog>>
    /\ UNCHANGED outsideRelease

GetCommitsBetween(any) ==
    /\ In("getCommitsBetween")
    /\ step(IF ~any THEN "complete"
            ELSE IF releaseOptions.version THEN "generateChangelog"
            ELSE "detectVersionBump")
    /\ UNCHANGED <<releaseOptions, gitLog>>
    /\ UNCHANGED outsideRelease

\* detectVersionBump, else getCurrentVersion under --yes, else the prompt
DetectVersion(detected, currentVersion) ==
    /\ In("detectVersionBump")
    /\ IF detected
       THEN step("generateChangelog")
       ELSE IF ~releaseOptions.yes
       THEN step("enterVersion")
       ELSE IF currentVersion
       THEN step("generateChangelog")
       ELSE releaseExit(1, "version required")
    /\ UNCHANGED <<releaseOptions, gitLog>>
    /\ UNCHANGED outsideRelease

EnterVersion(cancelled) ==
    /\ In("enterVersion")
    /\ IF cancelled THEN releaseExit(0, "cancelled") ELSE step("generateChangelog")
    /\ UNCHANGED <<releaseOptions, gitLog>>
    /\ UNCHANGED outsideRelease

\* generateChangelog, saveChangelog and git add CHANGELOG.md
GenerateChangelog(res, saved) ==
    /\ In("generateChangelog")
    /\ IF res = "ok" /\ saved
       THEN step("changelogCommit")
       ELSE releaseRejects(IF res = "exit" THEN "backend unavailable"
                           ELSE "changelog failed")
    /\ UNCHANGED <<releaseOptions, gitLog>>
    /\ UNCHANGED outsideRelease

\* await commit(`chore(release): v${version}`)
ChangelogCommit(ok) ==
    /\ In("changelogCommit")
    /\ gitLog' = Append(gitLog, GitOp("changelog commit", ok))
    /\ IF ok THEN step("addHistoryEntry") ELSE releaseRejects("commit failed")
    /\ UNCHANGED releaseOptions
    /\ UNCHANGED outsideRelease

AddHistoryEntry(ok) ==
    /\ In("addHistoryEntry")
    /\ IF ok THEN step(beforeTag(releaseOptions)) ELSE releaseRejects("history failed")
    /\ UNCHANGED <<releaseOptions, gitLog>>
    /\ UNCHANGED outsideRelease

ConfirmTag(answer) ==
    /\ In("confirmTag")
    /\ IF answer = "null"
       THEN releaseExit(0, "cancelled")
       ELSE step(IF answer = "true" THEN "tag" ELSE "complete")
    /\ UNCHANGED <<releaseOptions, gitLog>>
    /\ UNCHANGED outsideRelease

\* await git(`tag ${tagName}`)
Tag(ok) ==
    /\ In("tag")
    /\ gitLog' = Append(gitLog, GitOp("tag", ok))
    /\ step(afterTag(releaseOptions, ok))
    /\ UNCHANGED releaseOptions
    /\ UNCHANGED outsideRelease

\* p.confirm("Push to remote with tags?"); a cancel keeps shouldPush false
ConfirmPush(answer) ==
    /\ In("confirmPush")
    /\ step(IF answer = "true" THEN "push" ELSE "complete")
    /\ UNCHANGED <<releaseOptions, gitLog>>
    /\ UNCHANGED outsideRelease

\* await git("push origin HEAD --tags"); a failure is logged as a warning
Push(ok) ==
    /\ In("push")
    /\ gitLog' = Append(gitLog, GitOp("push", ok))
    /\ step("complete")
    /\ UNCHANGED releaseOptions
    /\ UNCHANGED outsideRelease

ReleaseInit ==
    /\ PromptAtRest
    /\ ClientAtRest(NoEnvironment)
    /\ CommitAtRest(NoOptions)
    /\ RunnerAtRest(<<>>)
    /\ ConfigAtRest(MissingFile, MissingFile)
    /\ \E o \in ReleaseOptions : ReleaseAtRest(o)
    /\ DeslopAtRest(NoDeslopOptions)

ReleaseNext ==
    \/ \E repo \in BOOLEAN : ReleaseIsGitRepo(repo)
    \/ \E s \in GitStatuses : ReleaseGetStatus(s)
    \/ \E shouldStage \in BOOLEAN : ReleaseConfirmStage(shouldStage)
    \/ \E diff \in BOOLEAN : ReleaseGetStagedDiff(diff)
    \/ \E res \in Generations : ReleaseGenerateCommitMessage(res)
    \/ \E confirmCommit \in BOOLEAN : ReleaseConfirmCommit(confirmCommit)
    \/ \E ok \in BOOLEAN : ReleaseCommit(ok)
    \/ \E found \in BOOLEAN : FindFromRef(found)
    \/ \E any \in BOOLEAN : GetCommitsBetween(any)
    \/ \E detected \in BOOLEAN, currentVersion \in BOOLEAN :
           DetectVersion(detected, currentVersion)
    \/ \E cancelled \in BOOLEAN : EnterVersion(cancelled)
    \/ \E res \in Generations, saved \in BOOLEAN : GenerateChangelog(res, saved)
    \/ \E ok \in BOOLEAN : ChangelogCommit(ok)
    \/ \E ok \in BOOLEAN : AddHistoryEntry(ok)
    \/ \E answer \in Answers3 : ConfirmTag(answer)
    \/ \E ok \in BOOLEAN : Tag(ok)
    \/ \E answer \in Answers3 : ConfirmPush(answer)
    \/ \E ok \in BOOLEAN : Push(ok)

ReleaseSpec == ReleaseInit /\ [][ReleaseNext]_vars

\* ------------------------------------------------ maybeDeslopStagedChanges
Awaiting(where) == dpc = where /\ deslopResult # "rejected"

deslopReturnWithoutClose(result, messages) ==
    /\ deslopResult' = result
    /\ shown' = shown \o messages
    /\ dpc' = "returned"

\* A return statement, then the finally block up to its await.
deslopReturn(result, messages) ==
    /\ deslopResult' = result
    /\ shown' = shown \o messages
    /\ dpc' = IF deslopSession' = "null" THEN "returned" ELSE "close"

deslopCatchWithoutRestore(error) ==
    /\ caught' = error
    /\ restore' = NoRestore
    /\ deslopReturn("abort", <<error>>)

\* The catch block up to its first await.
deslopCatch(error) ==
    /\ caught' = error
    /\ IF snapshotRef' # NoSnapshot
       THEN /\ restore' = [during |-> "catch", at |-> "worktree"]
            /\ dpc' = "restore"
            /\ UNCHANGED <<shown, deslopResult>>
       ELSE /\ restore' = NoRestore
            /\ deslopReturn("abort", <<error>>)

\* The "Deslop staged changes?" prompt, or the --yes default.
DeslopPrompt(response) ==
    /\ UNCHANGED outsideDeslop
    /\ Awaiting("prompt")
    /\ deslopOptions.yes => response = ""
    /\ UNCHANGED <<deslopOptions, snapshotRef, deslopSession, editSessions,
                   sessionCloses, restore, restores, caught>>
    /\ IF ~deslopOptions.yes /\ response = "cancel"
       THEN deslopReturn("abort", <<>>)
       ELSE IF ~shouldDeslop(deslopOptions, response)
       THEN deslopReturn("continue", <<>>)
       ELSE /\ dpc' = "getStagedDiff"
            /\ UNCHANGED <<shown, deslopResult>>

\* options.stagedDiff ?? (await getStagedDiff())
DeslopGetStagedDiff(diff) ==
    /\ UNCHANGED outsideDeslop
    /\ Awaiting("getStagedDiff")
    /\ UNCHANGED <<deslopOptions, snapshotRef, deslopSession, editSessions,
                   sessionCloses, restore, restores, caught>>
    /\ IF diff = ""
       THEN deslopReturn("continue", <<"No staged diff to deslop">>)
       ELSE /\ dpc' = "getStatus"
            /\ UNCHANGED <<shown, deslopResult>>

\* getBaseDiff and getStatus, which precede the try block.
DeslopGetStatus(ok) ==
    /\ UNCHANGED outsideDeslop
    /\ Awaiting("getStatus")
    /\ UNCHANGED <<deslopOptions, snapshotRef, deslopSession, editSessions,
                   sessionCloses, restore, restores, caught, shown>>
    /\ IF ok
       THEN dpc' = "createGitSnapshotRef" /\ UNCHANGED deslopResult
       ELSE dpc' = "returned" /\ deslopResult' = "rejected"

CreateGitSnapshotRef(ref) ==
    /\ UNCHANGED outsideDeslop
    /\ Awaiting("createGitSnapshotRef")
    /\ UNCHANGED <<deslopOptions, deslopSession, editSessions, sessionCloses,
                   restores>>
    /\ IF ref = Snapshot
       THEN /\ snapshotRef' = ref
            /\ dpc' = "runDeslopEdits"
            /\ UNCHANGED <<restore, caught, shown, deslopResult>>
       ELSE /\ snapshotRef' = NoSnapshot
            /\ deslopCatch(IF ref = "throws" THEN "git stash create failed"
                           ELSE "Failed to create git snapshot")

RunDeslopEdits(ok) ==
    /\ UNCHANGED outsideDeslop
    /\ Awaiting("runDeslopEdits")
    /\ editSessions' = editSessions + 1
    /\ UNCHANGED <<deslopOptions, snapshotRef, sessionCloses, restores>>
    /\ IF ok
       THEN /\ deslopSession' = "open"
            /\ dpc' = "stageFiles"
            /\ UNCHANGED <<restore, caught, shown, deslopResult>>
       ELSE /\ deslopSession' = "null"
            /\ deslopCatch("Model request failed")

StageFiles(ok) ==
    /\ UNCHANGED outsideDeslop
    /\ Awaiting("stageFiles")
    /\ UNCHANGED <<deslopOptions, snapshotRef, deslopSession, editSessions,
                   sessionCloses, restores>>
    /\ IF ok
       THEN /\ dpc' = "getUpdatedDiff"
            /\ UNCHANGED <<restore, caught, shown, deslopResult>>
       ELSE deslopCatch("git add failed")

\* updatedDiff and didChange, and the returns that follow them.
GetUpdatedDiff(updated) ==
    /\ UNCHANGED outsideDeslop
    /\ Awaiting("getUpdatedDiff")
    /\ UNCHANGED <<deslopOptions, snapshotRef, deslopSession, editSessions,
                   sessionCloses, restores>>
    /\ CASE updated = "throws" -> deslopCatch("git diff failed")
         [] updated = "same" ->
              /\ deslopReturn("continue", <<"No deslop changes were required.">>)
              /\ UNCHANGED <<restore, caught>>
         [] updated = "changed" ->
              /\ UNCHANGED <<restore, caught>>
              /\ IF deslopOptions.yes
                 THEN deslopReturn("updated", <<"summary">>)
                 ELSE /\ dpc' = "runGitDifftool"
                      /\ UNCHANGED <<shown, deslopResult>>

RunGitDifftool(diffResult) ==
    /\ UNCHANGED outsideDeslop
    /\ Awaiting("runGitDifftool")
    /\ dpc' = "select"
    /\ shown' = IF diffResult = "failed"
                THEN Append(shown, "git difftool failed. Review manually if needed.")
                ELSE shown
    /\ UNCHANGED <<deslopOptions, snapshotRef, deslopSession, editSessions,
                   sessionCloses, restore, restores, caught, deslopResult>>

\* "Keep deslop changes?"
KeepChanges(action) ==
    /\ UNCHANGED outsideDeslop
    /\ Awaiting("select")
    /\ UNCHANGED <<deslopOptions, snapshotRef, deslopSession, editSessions,
                   sessionCloses, restores, caught>>
    /\ IF action = "accept"
       THEN /\ deslopReturn("updated", <<"summary">>)
            /\ UNCHANGED restore
       ELSE /\ restore' = [during |-> action, at |-> "worktree"]
            /\ dpc' = "restore"
            /\ UNCHANGED <<shown, deslopResult>>

\* A git restore command of restoreGitSnapshot ends.
GitRestoreEnds(ok) ==
    /\ UNCHANGED outsideDeslop
    /\ Awaiting("restore")
    /\ restores' = Append(restores, restoreCommand(restore.at, ok, restore.during))
    /\ UNCHANGED <<deslopOptions, snapshotRef, deslopSession, editSessions,
                   sessionCloses>>
    /\ LET next == restoreGitSnapshot(restore.at, ok) IN
       CASE next \notin {"resolved", "rejected"} ->
              /\ restore' = [restore EXCEPT !.at = next]
              /\ UNCHANGED <<dpc, caught, shown, deslopResult>>
         [] next = "resolved" /\ restore.during = "cancel" ->
              /\ restore' = NoRestore
              /\ deslopReturn("abort", <<>>)
              /\ UNCHANGED caught
         [] next = "resolved" /\ restore.during = "reject" ->
              /\ restore' = NoRestore
              /\ deslopReturn("continue", <<"Deslop changes reverted">>)
              /\ UNCHANGED caught
         [] next = "rejected" /\ restore.during \in {"cancel", "reject"} ->
              deslopCatch(restoreError(restore.at))
         [] restore.during = "catch" ->
              \* try { await restoreGitSnapshot(snapshotRef) } catch {}
              /\ restore' = NoRestore
              /\ deslopReturn("abort", <<caught>>)
              /\ UNCHANGED caught

\* finally: try { await deslopSession.close() } catch {}
CloseDeslopSession(ok) ==
    /\ UNCHANGED outsideDeslop
    /\ Awaiting("close")
    /\ sessionCloses' = sessionCloses + 1
    /\ dpc' = "returned"
    /\ UNCHANGED <<deslopOptions, snapshotRef, deslopSession, editSessions,
                   restore, restores, caught, shown, deslopResult>>

DeslopInit ==
    /\ PromptAtRest
    /\ ClientAtRest(NoEnvironment)
    /\ CommitAtRest(NoOptions)
    /\ RunnerAtRest(<<>>)
    /\ ConfigAtRest(MissingFile, MissingFile)
    /\ ReleaseAtRest(NoReleaseOptions)
    /\ \E o \in DeslopFlowOptions : DeslopAtRest(o)

DeslopNext ==
    \/ \E response \in Responses : DeslopPrompt(response)
    \/ \E diff \in {"", "diff"} : DeslopGetStagedDiff(diff)
    \/ \E ok \in BOOLEAN : DeslopGetStatus(ok)
    \/ \E ref \in {Snapshot, "", "throws"} : CreateGitSnapshotRef(ref)
    \/ \E ok \in BOOLEAN : RunDeslopEdits(ok)
    \/ \E ok \in BOOLEAN : StageFiles(ok)
    \/ \E updated \in {"same", "changed", "throws"} : GetUpdatedDiff(updated)
    \/ \E diffResult \in {"ok", "failed"} : RunGitDifftool(diffResult)
    \/ \E action \in {"accept", "reject", "cancel"} : KeepChanges(action)
    \/ \E ok \in BOOLEAN : GitRestoreEnds(ok)
    \/ \E ok \in BOOLEAN : CloseDeslopSession(ok)

DeslopSpec == DeslopInit /\ [][DeslopNext]_vars

\* ----------------------------------------------------------------- claims
Settled == pc \in {"returned", "raised", "done"}
CallOver == pc \in {"raised", "done"}
TimedOut == consumer.sessionError = "Operation timed out"
DeadlinePassed == now - consumer.startTime > OPERATION_TIMEOUT_MS

LastStored(d) == d.messages.data[Len(d.messages.data)]

\* The reconnection reached the history and its last message is a complete
\* assistant message.
HistoryComplete(d) ==
    /\ d.sub = "stream" /\ d.get = "data" /\ d.messages.kind = "data"
    /\ Len(d.messages.data) > 0
    /\ LastStored(d).info.role = "assistant"
    /\ LastStored(d).info.time.completed # Undefined

\* The reconnection reached the history and it is empty or its last message
\* is not a complete assistant message.
HistoryIncomplete(d) ==
    /\ d.sub = "stream" /\ d.get = "data" /\ d.messages.kind = "data"
    /\ ~HistoryComplete(d)

\* The re-subscribe, session.get or session.messages threw.
ReconnectThrew(d) ==
    d.sub \in {"nostream", "throws"} \/ d.get = "throws" \/ d.messages.kind = "throws"

\* C1: once the orchestration call has returned or thrown, and session.create
\* had succeeded, exactly one session.delete request has been sent.
C1_ExactlyOneDelete ==
    (CallOver /\ sessionCreated) => handle.deletes = 1

\* C1 witness: the result of the stream carried an error, so close() ran in
\* the try block and again in the catch block.
C1_Witness ==
    /\ pc = "raised" /\ sessionCreated
    /\ consumer.status = "returned" /\ consumer.result.error # NoError
    /\ handle.deletes = 1

\* C2: the consumer is in the state, and has the outcome, of the same call
\* on the feed from which the events of other sessions are removed.
C2_OtherSessionsIgnored == consumer = reference

\* C3: while the consumer has not timed out, the parts map holds one entry
\* per delivered part id, that entry is the last part delivered for the id,
\* and a successful return from the loop returns the map.
C3_PartsMapHoldsLastValue ==
    ~TimedOut =>
        /\ \A i, j \in 1..Len(consumer.collectedParts) :
               consumer.collectedParts[i].id = consumer.collectedParts[j].id => i = j
        /\ {consumer.collectedParts[i].id : i \in 1..Len(consumer.collectedParts)}
               = {i \in PartIds : latest[i].present}
        /\ \A i \in 1..Len(consumer.collectedParts) :
               consumer.collectedParts[i] = latest[consumer.collectedParts[i].id]
        /\ (consumer.status = "returned" /\ consumer.result.error = NoError
                /\ ~HistoryComplete(disconnect))
               => consumer.result.parts = consumer.collectedParts

\* C3 witness: three parts were delivered for two ids, and the call returned.
C3_Witness ==
    /\ parts = 3 /\ Len(consumer.collectedParts) = 2
    /\ consumer.status = "returned" /\ consumer.result.error = NoError
    /\ feed = "open"

\* The text the claim describes: per part id in first-delivered order, the
\* text of the last part delivered for it if that part is textual.
ExpectedText ==
    trim(join([i \in 1..Len(firstSeen) |->
                  IF latest[firstSeen[i]].type = "text"
                  THEN latest[firstSeen[i]].text ELSE <<>>]))

\* C4: when runOpencodePrompt returns the text of the parts collected from
\* the feed, it is the trimmed concatenation, in first-delivered order of the
\* part ids, of the last text delivered for each textual part.
C4_TextIsOrderedConcatenation ==
    (outcome.kind = "returned" /\ ~HistoryComplete(disconnect))
        => outcome.message = ExpectedText

\* C4 witness: "Fix bug" is returned from three part events on two ids with
\* a non-text part among the collected ones or an id updated in place.
C4_Witness ==
    /\ outcome.kind = "returned" /\ feed = "open"
    /\ outcome.message = <<"F", " ", "b">>
    /\ parts = 3 /\ firstSeen = <<"a", "b">>

\* C5: a successful result carries an assistant message that has a
\* completion timestamp.
C5_SuccessOnlyIfComplete ==
    (consumer.status = "returned" /\ consumer.result.error = NoError
         /\ consumer.result.assistantMessage.present)
        => consumer.result.assistantMessage.time.completed # Undefined

\* C6 as stated: after a disconnect whose reconnection finds a complete last
\* assistant message, that message and its stored parts are the result and
\* runOpencodePrompt returns their text.
C6_HistoryTextReturned ==
    (Settled /\ feed = "threw" /\ HistoryComplete(disconnect)) =>
        /\ consumer.result =
               [assistantMessage |-> LastStored(disconnect).info,
                parts |-> LastStored(disconnect).parts, error |-> NoError]
        /\ outcome.kind = "returned"

\* C6 amended: the result is that message and its stored parts; their text
\* is returned when it is not empty after trimming, and otherwise the call
\* raises "No response generated" after the session delete.
C6_HistoryTextReturnedUnlessEmpty ==
    (Settled /\ feed = "threw" /\ HistoryComplete(disconnect)) =>
        LET stored == LastStored(disconnect)
            text == trim(join(textsOf(SelectSeq(stored.parts,
                                                 LAMBDA q : q.type = "text"))))
        IN /\ consumer.result =
                  [assistantMessage |-> stored.info, parts |-> stored.parts,
                   error |-> NoError]
           /\ IF text # <<>>
              THEN /\ outcome.kind = "returned"
                   /\ outcome.message = text
                   /\ outcome.messageID = stored.info.id
              ELSE /\ outcome.kind = "raised"
                   /\ outcome.error.cause = "No response generated"
                   /\ handle.deletes = 1

\* C6 witness: the text of the stored parts is returned although other parts
\* had been collected from the feed before the disconnect.
C6_Witness ==
    /\ feed = "threw" /\ HistoryComplete(disconnect)
    /\ outcome.kind = "returned"
    /\ consumer.collectedParts # <<>>
    /\ consumer.collectedParts # consumer.result.parts

\* C7: after a disconnect whose reconnection finds an empty history or a
\* last message that is not a complete assistant message, session.abort was
\* requested and the consumer ended with an error.
C7_IncompleteHistoryAbortsAndFails ==
    (feed = "threw" /\ HistoryIncomplete(disconnect)) =>
        /\ consumer.aborts >= 1
        /\ \/ consumer.status = "threw"
           \/ (consumer.status = "returned" /\ consumer.result.error # NoError)

\* C8: after a disconnect whose re-subscribe or history query threw, the
\* consumer requested session.abort once and threw, and runOpencodePrompt
\* raised with exactly one session.delete sent.
C8_FailedReconnectRaisesAndDeletes ==
    (feed = "threw" /\ ReconnectThrew(disconnect)) =>
        /\ consumer.status = "threw"
        /\ consumer.aborts = 1
        /\ pc \in {"consuming", "raised"}
        /\ pc = "raised" => (outcome.kind = "raised" /\ handle.deletes = 1)

\* C8 witness: the history query threw and the call has raised.
C8_Witness ==
    /\ pc = "raised" /\ feed = "threw"
    /\ disconnect.messages.kind = "throws"
    /\ handle.deletes = 1

\* C9: whatever number of close() calls the holder makes, overlapping or
\* not, at most one session.delete is sent, no call raises, and a failed
\* delete is not sent again.
C9_CloseIdempotent ==
    pc \in {"returned", "done"} =>
        /\ handle.deletes <= 1
        /\ inFlight <= 1
        /\ ~closeRejected
        /\ deleteFailed => (handle.deletes = 1 /\ handle.closed)

\* C9 witness: a second close() call was made while the delete of the first
\* was still in flight.
C9_Witness ==
    /\ pc = "returned" /\ closeCalls = 2 /\ inFlight = 1

\* C10: once the deadline has passed without a terminal state, and as long
\* as the feed neither ends nor disconnects, consumption eventually ends
\* with the "Operation timed out" error and the session is deleted.
C10_TimeoutEndsConsumption ==
    (Iterating /\ DeadlinePassed)
        ~> \/ (consumer.status = "returned"
                  /\ consumer.result.error = "Operation timed out"
                  /\ handle.deletes = 1)
           \/ feed # "open"

\* The decision the race has yielded is "reject" when the timer, a cancel or
\* a throwing prompt has settled it.
RejectedUnlessAnswered ==
    consumer.permission.answer \in {"timeout", "cancel", "throws"}
        => consumer.permission.response = "reject"

LastReply == consumer.permissionReplies[Len(consumer.permissionReplies)]

\* C11: a pending permission prompt always leads to the loop awaiting the
\* next event with a decision posted; the decision posted is the one the
\* race yielded for the id of the request, and it is "reject" when the
\* timer, a cancel or a throwing prompt has settled the prompt.
C11_UnansweredPermissionRejected ==
    /\ Prompting ~> (Iterating /\ consumer.permissionReplies # <<>>)
    /\ [](consumer.status = "replying" => RejectedUnlessAnswered)
    /\ [][(consumer.status = "replying" /\ consumer'.status # "replying")
             => /\ consumer'.status = "iterating"
                /\ Len(consumer'.permissionReplies) =
                       Len(consumer.permissionReplies) + 1
                /\ LastReply' = [id |-> consumer.permission.id,
                                 response |-> consumer.permission.response]]_vars

\* C11 witness: the timer fired after the clock had advanced, and "reject"
\* is being posted for the request.
C11_Witness ==
    /\ pc = "consuming" /\ consumer.status = "replying"
    /\ consumer.permission =
           [id |-> "per_1", answer |-> "timeout", response |-> "reject"]
    /\ now > 0

RepliesFor(id) ==
    {i \in 1..Len(consumer.permissionReplies) : consumer.permissionReplies[i].id = id}

\* C12: no permission id is answered more than once.
C12_OneReplyPerPermission ==
    \A id \in PermIds : Cardinality(RepliesFor(id)) <= 1

\* The failure runOpencodePrompt met: of promptAsync, or of the stream.
StreamFailed ==
    consumer.status = "threw"
        \/ (consumer.status = "returned" /\ consumer.result.error # NoError)

UnderlyingCause ==
    IF consumer.status = "idle" THEN "promptAsync failed"
    ELSE IF consumer.status = "threw" THEN consumer.thrown
    ELSE consumer.result.error

\* C13: when promptAsync or the stream consumption has failed and the error
\* has left runOpencodePrompt, the session delete has been sent, and the
\* error names the model as provider/model and carries the cause's message.
C13_FailureDeletesAndNamesModel ==
    (pc = "raised" /\ sessionCreated /\ (consumer.status = "idle" \/ StreamFailed))
        => /\ handle.deletes = 1
           /\ outcome.kind = "raised"
           /\ outcome.error.wrapped
           /\ outcome.error.modelID = "opencode/gpt-5-nano"
           /\ outcome.error.cause = UnderlyingCause

\* C13 witness: a session.error of the backend reached the caller.
C13_Witness ==
    /\ pc = "raised"
    /\ consumer.result.error = "quota exceeded"
    /\ outcome.error.cause = "quota exceeded"
    /\ handle.deletes = 1

\* ------------------------------------------------------------ C14, C15
Probes == {"envProbe", "defaultProbe"}

\* The steps of one getClient call that found no cached handle, in order.
ResolutionOrder ==
    IF envEndpointSet(env)
    THEN <<"envProbe", "warn", "defaultProbe", "isOpencodeInstalled",
           "createOpencode", "checkAuth">>
    ELSE <<"defaultProbe", "isOpencodeInstalled", "createOpencode", "checkAuth">>

EndpointClient(name) == IF name = "envProbe" THEN EnvClient ELSE DefaultClient

ResolvedInOrder(call) ==
    LET s == call.steps IN
    /\ Len(s) <= Len(ResolutionOrder)
    /\ \A i \in 1..Len(s) :
           /\ s[i].step = ResolutionOrder[i]
           /\ (s[i].step \in Probes /\ s[i].ok)
                  => /\ i = Len(s)
                     /\ call.pc = "returned"
                     /\ call.result = EndpointClient(s[i].step)
           /\ (s[i].step = "envProbe" /\ ~s[i].ok)
                  => (i < Len(s) /\ s[i + 1].step = "warn")
           /\ s[i].step = "createOpencode"
                  => \A j \in 1..Len(s) : s[j].step \in Probes => ~s[j].ok

ServedFromCache(c) ==
    (calls[c].pc = "idle" /\ calls'[c].pc # "idle" /\ clientInstance # NoClient)
        => /\ calls'[c] = [NewCall EXCEPT !.pc = "returned", !.result = clientInstance]
           /\ UNCHANGED <<clientInstance, serverInstance, servers>>

ResolvedIsCached(c) ==
    (calls[c].pc \in Probes /\ calls'[c].pc = "returned")
        => clientInstance' = calls'[c].result

\* C14: every getClient call resolves in the order environment endpoint,
\* default endpoint, spawn: an endpoint that answers is the handle returned
\* and ends the resolution, a failing environment probe is followed by a
\* warning and the default probe, createOpencode is reached only when no
\* probe of the call answered, a resolved handle is stored in clientInstance,
\* and a call that finds clientInstance set returns it without any step.
C14_ResolutionOrderAndCache ==
    /\ [](\A c \in 1..MaxCalls : ResolvedInOrder(calls[c]))
    /\ [][\A c \in 1..MaxCalls : ServedFromCache(c) /\ ResolvedIsCached(c)]_vars

C14_Witness ==
    /\ envEndpointSet(env)
    /\ calls[1].steps = <<Step("envProbe", FALSE), Step("warn", TRUE),
                          Step("defaultProbe", TRUE)>>
    /\ calls[1].result = DefaultClient
    /\ calls[2] = [NewCall EXCEPT !.pc = "returned", !.result = DefaultClient]
    /\ servers = 0

\* C15: when the process has ended, every spawned server that passed
\* checkAuth has received exactly one close() call, and no server ever
\* receives more than one.
C15_CloseExactlyOnce ==
    /\ \A n \in 1..MaxCalls : closes[n] <= 1
    /\ ~Running => \A n \in authenticated : closes[n] = 1
\* ----------------------------------------------------------------- C16
Committed == ended \in {"committed", "committed and pushed", "committed, push failed"}

UnrecoverableError ==
    \/ ended \in {"not a git repository", "backend unavailable",
                  "commit message generation failed", "no commit message",
                  "commit failed"}
    \/ ended = "branch aborted"
           /\ branchFlow.why \in {"generation failed", "creation failed",
                                  "branch exists"}

NothingToCommit == ended \in {"nothing to commit", "no diff"}

UserChoseToStop ==
    \/ ended \in {"declined staging", "cancelled"}
    \/ ended = "branch aborted" /\ branchFlow.why = "cancelled"

\* C16: when commitCommand has ended the process, the exit code is 1 if an
\* unrecoverable error occurred at any stage, and it is 0 only if the commit
\* succeeded, the user chose to cancel or skip, or nothing was staged to
\* commit.
C16_ExitCodeReflectsOutcome ==
    cpc = "exit"
        => /\ UnrecoverableError => process.exitCode = 1
           /\ process.exitCode = 0
                  => (Committed \/ UserChoseToStop \/ NothingToCommit)
\* ------------------------------------------------------------ C17, C18
\* C17: when a runOpencodeOnce call that created the attachment directory
\* has settled, the directory has been removed.
C17_TempDirRemovedWhenSettled ==
    (run.state # "pending" /\ tempDir # "none") => tempDir = "removed"

\* C18: the files written by one writeTempFiles call have pairwise distinct
\* names, and every name consists of characters of [a-zA-Z0-9._-] only.
C18_PathsDistinctAndSafe ==
    /\ \A i, j \in 1..Len(paths) : i # j => paths[i] # paths[j]
    /\ \A i \in 1..Len(paths) : \A k \in 1..Len(paths[i]) : paths[i][k] \in SafeChars
\* ----------------------------------------------------------------- C19
\* What a layer says about a field: its value, or Missing when the layer
\* does not count (no file, not JSON, outside a repository) or does not
\* define the field.
Defines(file, counts, s, f) ==
    IF counts /\ file.kind = "parsed" /\ file.content[s].present
    THEN file.content[s].fields[f]
    ELSE Missing

ByPrecedence(s, f) ==
    IF Defines(projectFile, inRepo, s, f) # Missing
    THEN Defines(projectFile, inRepo, s, f)
    ELSE IF Defines(globalFile, TRUE, s, f) # Missing
    THEN Defines(globalFile, TRUE, s, f)
    ELSE BuiltInDefaults[s][f]

Rank(op) ==
    CASE op = "commit" -> 1
      [] op = "changelog commit" -> 2
      [] op = "tag" -> 3
      [] OTHER -> 4

Executed(op) == \E i \in 1..Len(gitLog) : gitLog[i].op = op
Before(j, done) == \E i \in 1..(j - 1) : gitLog[i] = done

\* C20: releaseCommand runs its git steps in the order commit, changelog
\* commit, tag, push, each at most once; the tag is attempted only after the
\* changelog commit succeeded and the push only after the tag was created;
\* after a failed tag nothing is pushed; and a run whose push failed ends
\* with exit code 0.
C20_ReleaseOrder ==
    /\ \A i, j \in 1..Len(gitLog) :
           i < j => Rank(gitLog[i].op) < Rank(gitLog[j].op)
    /\ \A j \in 1..Len(gitLog) :
           /\ gitLog[j].op = "tag" => Before(j, GitOp("changelog commit", TRUE))
           /\ gitLog[j].op = "push" => Before(j, GitOp("tag", TRUE))
           /\ gitLog[j] = GitOp("tag", FALSE) => ~Executed("push")
           /\ gitLog[j] = GitOp("push", FALSE)
                  => (lpc = "exit" /\ process.exitCode = 0)

C20_Witness ==
    /\ gitLog = <<GitOp("commit", TRUE), GitOp("changelog commit", TRUE),
                  GitOp("tag", TRUE), GitOp("push", FALSE)>>
    /\ releaseEnded = "release complete"
    /\ process.exitCode = 0

\* ------------------------------------------------------------ C21, C22
\* The git restore commands executed for the user's choice `during`.
RestoresDuring(during) == SelectSeq(restores, LAMBDA r : r.during = during)

\* Working tree from the snapshot, then the index from its second parent,
\* or from the snapshot itself when the second parent cannot be read.
CompleteRestores(during) ==
    {<<GitRestore(Snapshot, "--worktree", TRUE, during),
       GitRestore(Snapshot \o "^2", "--staged", TRUE, during)>>,
     <<GitRestore(Snapshot, "--worktree", TRUE, during),
       GitRestore(Snapshot \o "^2", "--staged", FALSE, during),
       GitRestore(Snapshot, "--staged", TRUE, during)>>}

\* The restore ended at a command that failed and has no fallback.
FailedRestores(during) ==
    {<<GitRestore(Snapshot, "--worktree", FALSE, during)>>,
     <<GitRestore(Snapshot, "--worktree", TRUE, during),
       GitRestore(Snapshot \o "^2", "--staged", FALSE, during),
       GitRestore(Snapshot, "--staged", FALSE, during)>>}

ResultOf(choice) == IF choice = "reject" THEN "continue" ELSE "abort"

\* C21 as stated: when the user has rejected the changes or cancelled the
\* review, the call returns with the working tree and then the index
\* restored from the snapshot, "continue" for reject and "abort" for cancel.
C21_RejectRestoresBoth ==
    \A choice \in {"reject", "cancel"} :
        (dpc = "returned" /\ RestoresDuring(choice) # <<>>) =>
            /\ RestoresDuring(choice) \in CompleteRestores(choice)
            /\ deslopResult = ResultOf(choice)

\* C21 amended: the restore runs the working-tree command first and then the
\* index commands; when they succeed the call returns "continue" for reject
\* and "abort" for cancel, and when the working-tree command or both index
\* commands fail it returns "abort" for either choice.
C21_RejectRestoresBothUnlessGitFails ==
    \A choice \in {"reject", "cancel"} :
        (dpc = "returned" /\ RestoresDuring(choice) # <<>>) =>
            IF RestoresDuring(choice) \in CompleteRestores(choice)
            THEN deslopResult = ResultOf(choice)
            ELSE /\ RestoresDuring(choice) \in FailedRestores(choice)
                 /\ deslopResult = "abort"

\* C21 witness: the user rejected, the second parent could not be read, and
\* the index was restored from the snapshot itself.
C21_Witness ==
    /\ dpc = "returned" /\ deslopResult = "continue"
    /\ Len(RestoresDuring("reject")) = 3
    /\ RestoresDuring("reject") \in CompleteRestores("reject")

\* A restoreGitSnapshot call was rejected by a failing git restore.
RestoreFailed ==
    \E i \in 1..Len(restores) :
        /\ ~restores[i].ok
        /\ restores[i].source = Snapshot

\* C22: when the call has returned after a failed restore, a message shown
\* to the user is the error of a restore.
C22_RestoreFailureSurfaced ==
    (dpc = "returned" /\ RestoreFailed) =>
        \E i \in 1..Len(shown) : shown[i] \in RestoreErrors

\* ----------------------------------------------------------------- C23
\* The requests of the call other than session.abort and session.delete.
RequestsSent ==
    <<requests, consumer.subscribes, consumer.gets, consumer.historyQueries,
      consumer.permissionReplies>>

\* processEventStream has returned or thrown: a completion or error event,
\* the end of the feed, the deadline or a disconnect has ended it.
ConsumerEnded == consumer.status \in {"returned", "threw"}

\* C23: per call, event.subscribe is requested at most twice, session.get and
\* session.messages at most once, session.create and promptAsync at most
\* once, and once the consumer has ended no request other than abort and
\* delete is sent for the session.
C23_ReconnectIsOnlyRetry ==
    /\ [](/\ consumer.subscribes <= 2
          /\ consumer.gets <= 1
          /\ consumer.historyQueries <= 1
          /\ requests.create <= 1
          /\ requests.promptAsync <= 1)
    /\ [][ConsumerEnded => RequestsSent' = RequestsSent]_vars

\* C23 witness: the feed disconnected, the re-subscribe and the one history
\* query succeeded, and the call has returned.
C23_Witness ==
    /\ pc = "returned" /\ feed = "threw"
    /\ consumer.subscribes = 2 /\ consumer.historyQueries = 1
    /\ requests = [create |-> 1, promptAsync |-> 1]

\* ----------------------------------------------------------------- C24
\* The message.updated events of the session whose info is an assistant
\* message with a completion timestamp.
CompleteEvents ==
    {e \in MessageEvents(OwnMessages) :
         /\ e.properties.info.role = "assistant"
         /\ e.properties.info.time.completed # Undefined}

\* The loop has returned the message of the event with the parts collected
\* before it.
ReturnsMessageOf(event) ==
    /\ consumer'.status = "returned"
    /\ consumer'.result = [assistantMessage |-> event.properties.info,
                           parts |-> consumer.collectedParts,
                           error |-> NoError]

\* After processEventStream has returned, the feed is not read again.
NothingConsumedAfterReturn ==
    [][consumer.status = "returned" => events' = events]_vars

ReturnedIdIsResultId ==
    outcome.kind = "returned"
        => outcome.messageID = consumer.result.assistantMessage.id

TextParts(ps) == SelectSeq(ps, LAMBDA q : q.type = "text" /\ q.text # <<>>)

\* C25: when processEventStream returns a complete assistant message, every
\* part that contributes text to the result belongs to that message; no part
\* of the user prompt message or of another assistant message does.
C25_TextOnlyFromFinalMessage ==
    (/\ consumer.status = "returned"
     /\ consumer.result.error = NoError
     /\ consumer.result.assistantMessage.present)
        => \A i \in 1..Len(TextParts(consumer.result.parts)) :
               TextParts(consumer.result.parts)[i].messageID
                   = consumer.result.assistantMessage.id

\* ----------------------------------------------------------------- C26
IdleEvent == Event("session.idle", SID, NullMsg, NoPart, NoErrorData, Absent)

TrackedComplete ==
    /\ consumer.assistantMessage.present
    /\ isAssistantMessageComplete(consumer.assistantMessage)

\* session.idle returns the tracked message when it is complete, and
\* otherwise changes neither the parts map nor the tracked message and
\* leaves the loop waiting for the next event.
IdleHandled ==
    IF TrackedComplete
    THEN /\ consumer'.status = "returned"
         /\ consumer'.result = [assistantMessage |-> consumer.assistantMessage,
                                parts |-> consumer.collectedParts,
                                error |-> NoError]
    ELSE /\ consumer'.status = "iterating"
         /\ consumer'.collectedParts = consumer.collectedParts
         /\ consumer'.assistantMessage = consumer.assistantMessage
         /\ consumer'.result = NoResult

ErrorEvents ==
    {Event("session.error", SID, NullMsg, NoPart, e, Absent) : e \in ErrorDatas}

\* The message the backend reported, or the name of the error when it
\* reported no message.
BackendMessage(errorData) ==
    IF errorData.hasData /\ errorData.message # "" THEN errorData.message
    ELSE errorData.name

\* The loop has returned an error result for the event, having sent no
\* subscribe, session.get or session.messages request on the way.
ReturnsErrorOf(event) ==
    /\ consumer'.status = "returned"
    /\ consumer'.result.error # NoError
    /\ event.properties.error.present
           => consumer'.result.error = BackendMessage(event.properties.error)
    /\ consumer'.result.parts = consumer.collectedParts
    /\ consumer'.subscribes = consumer.subscribes
    /\ consumer'.gets = consumer.gets
    /\ consumer'.historyQueries = consumer.historyQueries

\* Once the consumer has an error result, no event is consumed, nothing is
\* requested again, and runOpencodePrompt raises whatever was collected.
ErrorResultIsFinal ==
    /\ [][(consumer.status = "returned" /\ consumer.result.error # NoError)
             => /\ events' = events
                /\ consumer' = consumer]_vars
    /\ []((consumer.status = "returned" /\ consumer.result.error # NoError
              /\ pc # "consuming")
             => /\ pc \in {"raised", "done"}
                /\ outcome.kind = "raised"
                /\ outcome.error.cause = consumer.result.error)

ConnectFailed ==
    consumer.status = "threw" /\ consumer.thrown = "Failed to connect to event stream"

\* C28: when the first event.subscribe throws or yields no stream,
\* processEventStream raises at once, having subscribed once and sent no
\* session.get, session.messages or session.abort request and read no event,
\* and runOpencodePrompt deletes the session and raises.
C28_InitialSubscribeFailureRaises ==
    /\ [][\A sub \in SubscribeResults \ {"stream"} :
             Subscribe(sub) => ConnectFailed']_vars
    /\ [](ConnectFailed =>
             /\ consumer.subscribes = 1 /\ ~consumer.reconnectAttempted
             /\ consumer.gets = 0 /\ consumer.historyQueries = 0
             /\ consumer.aborts = 0
             /\ events = 0 /\ feed = "open")
    /\ []((ConnectFailed /\ pc # "consuming") =>
             /\ pc \in {"raised", "done"}
             /\ outcome.kind = "raised"
             /\ outcome.error.cause = "Failed to connect to event stream"
             /\ handle.closed /\ handle.deletes = 1)

\* C28 witness: the first subscribe failed and runOpencodePrompt has raised
\* after one session.delete.
C28_Witness ==
    /\ ConnectFailed /\ pc = "raised"
    /\ consumer.subscribes = 1 /\ consumer.aborts = 0
    /\ handle.deletes = 1

\* ----------------------------------------------------------------- C29
\* A permission request has been received and its reply call has not
\* finished.
PermissionPending ==
    consumer.status \in {"prompting", "replying"} \/ consumer.permission.id # Absent

\* C29: an event is taken from the feed only while no permission request is
\* pending; a pending request first obtains its decision, then its reply call
\* finishes, with or without success, and only then the loop is back at the
\* feed, with one reply recorded for the request.
C29_PermissionResolvedBeforeNextEvent ==
    /\ [][events' # events => (Iterating /\ ~PermissionPending)]_vars
    /\ [][(consumer.status = "prompting" /\ consumer'.status # "prompting")
             => /\ consumer'.status = "replying"
                /\ consumer'.permission.id = consumer.permission.id
                /\ consumer'.permission.response \in {"once", "always", "reject"}]_vars
    /\ [][(consumer.status = "replying" /\ consumer'.status # "replying")
             => /\ consumer'.status = "iterating"
                /\ ~PermissionPending'
                /\ Len(consumer'.permissionReplies)
                       = Len(consumer.permissionReplies) + 1]_vars

\* C29 witness: a permission request was answered, its reply failed to post,
\* and a session.idle was handled after it.
C29_Witness ==
    /\ Iterating /\ consumer.idleIgnored
    /\ Len(consumer.permissionReplies) = 1
    /\ consumer.warnings # <<>>

\* ----------------------------------------------------------------- C30
\* C30: when the reply to a permission request fails to post, one warning is
\* logged and the loop is back at the feed: the parts map, the tracked
\* message and the deadline are unchanged, processEventStream has neither a
\* result nor an exception, and the session is neither aborted nor deleted.
C30_FailedReplyOnlyWarns ==
    [][PostReply(FALSE) =>
           /\ consumer'.warnings
                  = Append(consumer.warnings, "Failed to send permission response")
           /\ consumer'.status = "iterating"
           /\ consumer'.collectedParts = consumer.collectedParts
           /\ consumer'.assistantMessage = consumer.assistantMessage
           /\ consumer'.sessionError = NoError
           /\ consumer'.result = NoResult /\ consumer'.thrown = NoError
           /\ consumer'.aborts = consumer.aborts
           /\ handle' = handle /\ ~handle.closed /\ handle.deletes = 0
           /\ pc' = "consuming" /\ outcome' = outcome]_vars

\* C30 witness: a reply failed to post, and the call went on to return the
\* text of the complete assistant message that followed.
C30_Witness ==
    /\ pc = "returned" /\ outcome.kind = "returned"
    /\ consumer.warnings = <<"Failed to send permission response">>
    /\ consumer.result.error = NoError
    /\ ~handle.closed

\* ----------------------------------------------------------------- C31
SpinnerSupplied == consumer.spinner.supplied

\* C31: with a spinner supplied, the spinner is not running while the
\* permission prompt is shown and the decision is relayed, and it is running
\* when the loop is back at the feed after the reply, whatever spinner
\* message was passed.
C31_SpinnerPausedAndResumed ==
    /\ []((SpinnerSupplied /\ consumer.status \in {"prompting", "replying"})
             => ~consumer.spinner.running)
    /\ [][(SpinnerSupplied /\ \E replyOk \in BOOLEAN : PostReply(replyOk))
             => consumer'.spinner.running]_vars

\* ----------------------------------------------------------------- C32
\* processEventStream returned a complete assistant message whose text
\* parts, concatenated and trimmed, are the empty string.
CompletedWithoutText ==
    /\ consumer.status = "returned" /\ consumer.result.error = NoError
    /\ consumer.result.assistantMessage.present
    /\ isAssistantMessageComplete(consumer.result.assistantMessage)
    /\ extractTextFromParts(consumer.result.parts) = <<>>

\* C32: when the assistant message completes and the text parts trim to the
\* empty string, runOpencodePrompt sends the session.delete and raises an
\* error that names the model; no call returns an empty message.
C32_EmptyTextRaises ==
    /\ (CompletedWithoutText /\ pc # "consuming")
          => /\ pc \in {"raised", "done"}
             /\ outcome.kind = "raised"
             /\ outcome.error.modelID = ModelID
             /\ outcome.error.cause = "No response generated"
             /\ handle.closed /\ handle.deletes = 1
    /\ outcome.kind = "returned" => trim(outcome.message) # <<>>

\* C32 witness: the message completed after a reasoning part and a blank
\* text part had been collected, and the call raised after one delete.
C32_Witness ==
    /\ CompletedWithoutText /\ pc = "raised"
    /\ \E i \in 1..Len(consumer.result.parts) :
           consumer.result.parts[i].type = "reasoning"
    /\ \E i \in 1..Len(consumer.result.parts) :
           consumer.result.parts[i] = Part(SID, "msg_u", "b", "text", Blank)
    /\ handle.deletes = 1

\* ----------------------------------------------------------------- C33
\* C33: when the process has ended, every server that createOpencode spawned
\* has received a close() call, whether or not it passed checkAuth.
C33_SpawnedServerNeverLeaked ==
    ~Running => \A n \in 1..servers : closes[n] >= 1

\* ----------------------------------------------------------------- C34
\* The spawned servers that have not received a close() call.
AliveServers == {n \in 1..servers : closes[n] = 0}

\* C34: whatever the order and overlap of the getClient and cleanup calls of
\* the process, at most one spawned server is alive at a time, and the exit,
\* SIGINT and SIGTERM listeners are registered at most once.
C34_OneServerAndOneHookSet ==
    /\ Cardinality(AliveServers) <= 1
    /\ listeners <= 1

\* ----------------------------------------------------------------- C35
\* runOpencodePrompt has ended, and nothing but the missing completion can
\* have made it fail: the subscription was established, the feed did not
\* disconnect, neither the deadline nor a session.error ended the loop, and
\* the stream of the late subscription carried no other assistant message.
EndedWithoutOtherFailure ==
    /\ pc \in {"returned", "raised", "done"}
    /\ consumer.status = "returned"
    /\ feed # "threw"
    /\ consumer.sessionError = NoError
    /\ ~consumer.assistantMessage.present

\* C35: when the backend has emitted the complete assistant message.updated
\* of the session after it accepted promptAsync, also before event.subscribe
\* of the call was established, the call returns the response.
C35_NoTerminalEventLost ==
    (unseen /\ EndedWithoutOtherFailure) => outcome.kind = "returned"

\* ----------------------------------------------------------------- C36
\* A step in which the loop receives an unknown or malformed event of the
\* session.
UnexpectedDelivered ==
    \/ \E event \in UnknownEvents : Deliver(event)
    \/ \E event \in MalformedEvents, d \in Disconnects : DeliverMalformed(event, d)

\* C36: an event of the session with an unknown type, or with a known type
\* and no payload, received before the deadline, is dropped: the parts map
\* and the tracked message are unchanged, the loop keeps waiting, and no
\* reconnection is made.
C36_UnexpectedEventsDropped ==
    [][(UnexpectedDelivered /\ ~DeadlinePassed) =>
           /\ consumer'.status = "iterating"
           /\ consumer'.collectedParts = consumer.collectedParts
           /\ consumer'.assistantMessage = consumer.assistantMessage
           /\ consumer'.reconnectAttempted = consumer.reconnectAttempted
           /\ consumer'.subscribes = consumer.subscribes
           /\ consumer'.historyQueries = consumer.historyQueries]_vars

\* ----------------------------------------------------------------- C37
SnapshotErrors == {"git stash create failed", "Failed to create git snapshot"}

RestoredInCatch == \E i \in 1..Len(restores) : restores[i].during = "catch"

\* C37: runDeslopEdits is started only with a snapshot; when the snapshot
\* cannot be created there is no edit session and no restore and the result
\* is "abort"; and when a later step fails, the catch block has run git
\* restore from the snapshot by the time "abort" is the result.
C37_SnapshotBeforeEdits ==
    /\ (editSessions > 0 \/ dpc = "runDeslopEdits") => snapshotRef = Snapshot
    /\ caught \in SnapshotErrors
          => /\ snapshotRef = NoSnapshot
             /\ editSessions = 0 /\ restores = <<>> /\ restore = NoRestore
             /\ dpc = "returned" /\ deslopResult = "abort"
    /\ (caught # NoError /\ snapshotRef = Snapshot)
          => /\ deslopResult \in {"none", "abort"}
             /\ deslopResult = "abort" => RestoredInCatch
             /\ deslopResult = "none" => (dpc = "restore" /\ restore.during = "catch")

\* C37 witness: the snapshot was created, the edit session ran, git add
\* failed, and the call returned "abort" after a restore in the catch block.
C37_Witness ==
    /\ dpc = "returned" /\ deslopResult = "abort"
    /\ snapshotRef = Snapshot /\ editSessions = 1
    /\ caught = "git add failed"
    /\ RestoredInCatch

\* ----------------------------------------------------------------- C38
\* C38: the session runDeslopEdits returned is closed once by the time the
\* call has returned, on every way out, never more than once and never
\* without a session; and the close, whether it succeeds or fails, leaves
\* the result and the messages of the call as they were.
C38_SessionClosedOnce ==
    /\ [](sessionCloses <= 1)
    /\ [](deslopSession = "null" => sessionCloses = 0)
    /\ []((dpc = "returned" /\ deslopSession = "open") => sessionCloses = 1)
    /\ [][\A ok \in BOOLEAN :
             CloseDeslopSession(ok)
                 => /\ deslopResult \in {"continue", "updated", "abort"}
                    /\ deslopResult' = deslopResult
                    /\ shown' = shown
                    /\ dpc' = "returned"]_vars

\* C38 witness: the user rejected the changes, they were reverted, and the
\* call returned "continue" with the session closed once.
C38_Witness ==
    /\ dpc = "returned" /\ deslopResult = "continue"
    /\ deslopSession = "open" /\ sessionCloses = 1
    /\ restores # <<>>

\* ----------------------------------------------------------------- C39
\* git commit is executed at most once per run and never with an empty
\* message.
CommitsAtMostOnce ==
    /\ Len(gitCommits) <= 1
    /\ \A i \in DOMAIN gitCommits : gitCommits[i] # NoMessage

\* The step is one of the ways a message is accepted: confirmWithMode
\* returns "accept", or the user chooses "Commit with this message".
AcceptingStep ==
    \/ \E response \in ConfirmResponses :
           /\ confirmWithMode(executionMode, response) = "accept"
           /\ ConfirmMessage(response)
    \/ SelectAction("commit")

\* The commit is executed by the commit step only, which is reached by the
\* --yes or --accept flag or by an accepting step.
CommitOnlyWhenAccepted ==
    /\ gitCommits' # gitCommits => cpc = "commit"
    /\ (cpc' = "commit" /\ cpc # "commit")
           => options.yes \/ options.accept \/ AcceptingStep

\* Edit, intent change and regenerate execute no commit and go back to the
\* action loop or end the run.
EditingStep ==
    \/ \E cancelled \in BOOLEAN, edited \in EditedMessages : EditMessage(cancelled, edited)
    \/ \E cancelled \in BOOLEAN, newIntent \in Intents : ChangeIntent(cancelled, newIntent)
    \/ SelectAction("regenerate")
    \/ /\ cpc = "regenerateCommitMessage"
       /\ \E res \in Generations, message \in GeneratedMessages :
              GenerateCommitMessage(res, message)

EditingNeverCommits ==
    EditingStep => gitCommits' = gitCommits /\ cpc' # "commit"

\* C39 as stated: git commit is executed at most once, with a non-empty
\* message, only after the message was accepted by a flag, by
\* confirmWithMode or by the choice "Commit with this message"; after any
\* cancel of a prompt about the message no commit is executed; edit, intent
\* change and regenerate never commit by themselves.
C39_CommitOnlyAfterAcceptance ==
    /\ [](CommitsAtMostOnce)
    /\ [][CommitOnlyWhenAccepted]_vars
    /\ [](cancelSeen => gitCommits = <<>>)
    /\ [][EditingNeverCommits]_vars

\* C39 amended: as above, with the cancels that end the run: after a cancel
\* of the confirmation or of the action selection no commit is executed. (A
\* cancel of the intent or of the edit prompt keeps the message and goes
\* back to the action loop.)
C39_CommitOnlyAfterAcceptanceOrLoopCancel ==
    /\ [](CommitsAtMostOnce)
    /\ [][CommitOnlyWhenAccepted]_vars
    /\ [](ended = "cancelled" => gitCommits = <<>>)
    /\ [][(ended' = "cancelled" /\ ended # "cancelled") => cancelSeen' /\ cpc' = "exit"]_vars
    /\ [][EditingNeverCommits]_vars

\* C39 witness: in the action loop the user cancelled one prompt, edited the
\* message, chose to commit, and the edited message was committed.
C39_Witness ==
    /\ ~options.yes /\ ~options.accept
    /\ cancelSeen
    /\ gitCommits = <<<<"n">>>>
    /\ ended = "committed"

\* ----------------------------------------------------------------- C40
\* C40: in interactive mode a cancel of the confirmation "Create a new
\* branch for this commit?" makes maybeCreateBranchForCommit return "abort",
\* and commitCommand exits without a commit.
C40_BranchCancelAborts ==
    [][\A defaultValue \in {"true", "false"} :
          (executionMode = "interactive" /\ ConfirmBranch("cancel", defaultValue))
              => /\ branchFlow'.result = "abort"
                 /\ cpc' = "exit"
                 /\ gitCommits' = <<>>]_vars

====
